---- MODULE Spec2Model ----
(***************************************************************************)
(* GlassCloud relay: connection registry (server/websocket.ts), message    *)
(* dispatcher (websocket/handler.ts), tool execution orchestrator          *)
(* (services/mcp-proxy.service.ts), credential coordinator                 *)
(* (services/auth.service.ts) and device link service                      *)
(* (services/link.service.ts).                                             *)
(*                                                                         *)
(* Node runs every handler to completion on one thread, so each action is  *)
(* one synchronous run of a handler or of the part of an async function    *)
(* between two awaits.                                                     *)
(***************************************************************************)
EXTENDS Integers, Sequences, FiniteSets, TLC

\* ------------------------------------------------------------------ bounds
\* sockets with a deviceId alive at the same time
MaxConns == 6
\* sockets without deviceId alive at the same time
MaxAnon == 1

\* clock readings after the start, one every five minutes, while tokens are
\* refreshed and while link tokens are exchanged
MaxClock == 1
MaxLinkClock == 2
\* upstream refresh calls issued
MaxRefreshes == 2
\* completed OAuth code exchanges
MaxAuths == 1
\* getValidToken calls made
MaxCallers == 3
\* link tokens generated
MaxLinkTokens == 1
\* frames received on all sockets
MaxFrames == 1
\* sockets alive at the same time while frames are dispatched
MaxDispConns == 2
\* items in the content array of a third-party answer
MaxItems == 2
\* tool calls made in the orchestrator specification
MaxCalls == 2
\* clock steps (of 5 minutes) in the orchestrator specification
MaxExecClock == 2
\* inbound frames in the device record specification
MaxOwnFrames == 2
\* the largest number tried as the value of a bounded field
MaxNumber == 51
\* MAX_CONTENT_LENGTH in bytes, scaled down from 10240 so that contents are short
MaxContentLength == 11
\* characters of a content that are not filler
MaxTail == 3

\* ------------------------------------------------------- program constants
MAX_CONNECTIONS_PER_DEVICE == 5
\* milliseconds
Minute == 60 * 1000
EXPIRY_BUFFER_MS == 5 * 60 * 1000
DEFAULT_EXPIRY_MS == 3600 * 1000
TOKEN_EXPIRY_MS == 5 * 60 * 1000
CACHE_TTL_MS == 5 * 60 * 1000
\* maxResults: z.coerce.number().int().min(1).max(50)
MAX_RESULTS == 50
DEFAULT_MAX_RESULTS == 10
\* days: z.coerce.number().int().min(1).max(30).default(7)
MAX_DAYS == 30
DEFAULT_DAYS == 7
CLOSE_MISSING_DEVICE == 4001
CLOSE_TOO_MANY == 4002

\* ------------------------------------------------------------- value sets
Devices == {"d1", "d2"}
\* deviceConnections has no entry for the device
NoSet == 0
Users == {"u1", "u2"}
\* devices.user_id of an existing row that is NULL, and a missing devices row
Unlinked == "unlinked"
Absent == "absent"
\* no oauth_tokens row
NoRow == [present |-> FALSE, accessToken |-> 0, refreshToken |-> 0, expiresAt |-> 0,
          scope |-> 0]
\* a refresh call the provider has not answered
NoReply == [kind |-> "none", rotate |-> FALSE, expiry |-> 0, held |-> FALSE]
\* refreshPromises has no entry for the user
NoPromise == 0
Callers == 1..MaxCallers
\* validateLinkToken's null, and the NULLs of link_tokens.used_by_device_id and
\* link_tokens.used_at
NoUser == "nobody"
NoDevice == "nodevice"
NoTime == -1
\* a tool name is the tuple of its parts between dots; the ones with a schema,
\* the prefixes of the built-in services
ToolNames == {<<"gmail", "get_unread">>, <<"gmail", "bogus">>, <<"acme", "run">>}
Schemas == {<<"gmail", "get_unread">>, <<"gmail", "search">>, <<"calendar", "get_events">>}
\* the tool that writes to the provider, its schema has no bounded field
WriteTools == {<<"calendar", "create_event">>}
BuiltIn == {"gmail", "calendar"}
\* a JSON value: a number or the string of a number (`twice` is two times the
\* number, so that halves are exact), another string, an object (its properties
\* in insertion order) or undefined
Json(t, twice, props) == [t |-> t, twice |-> twice, props |-> props]
Num(n) == Json("number", 2 * n, <<>>)
Half(n) == Json("number", 2 * n + 1, <<>>)
NumStr(n) == Json("numeric_string", 2 * n, <<>>)
HalfStr(n) == Json("numeric_string", 2 * n + 1, <<>>)
Text == Json("text", 0, <<>>)
Undefined == Json("undefined", 0, <<>>)
Prop(k, v) == [k |-> k, v |-> v]
Obj(props) == Json("object", 0, props)
\* the property names of the model, in the order of Array.prototype.sort()
KeyOrder == <<"a", "b", "days", "maxResults", "query", "startTime", "title">>
ArgMaps == {Obj(<<Prop("maxResults", Num(10))>>), Obj(<<Prop("maxResults", Num(999))>>)}
ServerIds == {"s1", "s9"}
\* fields that a frame lacks (undefined)
NoToolName == <<>>
NoArgs == Undefined
NoLinkToken == -1
\* no cache key computed
NoKey == <<>>
\* a frame that is not a tool call
NoCall == <<>>
\* the content of a result that is not a success
NoContent == [by |-> NoUser, truncated |-> FALSE, empty |-> FALSE]

VARIABLES
    conns,              \* per deviceId, the sockets of wss.clients opened with it and not
                        \* yet closed, in order of arrival. A socket is named by its
                        \* deviceId and its position; when a socket's 'close' event has
                        \* fired the later ones of the device move down by one
    sets,               \* per deviceId, the Set objects created for it that are still
                        \* referenced (by the Map or by a handler's closure), each in
                        \* insertion order
    deviceConnections,  \* Map deviceId -> Set object (position in sets[d]), NoSet if no entry
    rejected,           \* sockets of wss.clients that came without deviceId
    deviceRows,         \* devices table: per device id Absent, Unlinked or the owning user id
    now,                \* Date.now()
    oauthRows,          \* oauth_tokens table: the row of each user id (decrypted)
    refreshPromises,    \* Map userId -> Promise, as the refresh call that made the promise
    refreshOps,         \* the refreshToken() calls made so far, in order
    callers,            \* the getValidToken() calls: caller, awaited promise, result
    auths,              \* completed exchangeCodeForTokens() calls
    oauth2Client,       \* the one OAuth2 client of the module: the refresh token in
                        \* the credentials it was last given
    linkTokens,         \* link_tokens table: the set of its rows
    issued,             \* generateLinkToken() calls made
    linkLog,            \* per issued token, the outcomes of the attempts to consume it
    requests,           \* the inbound frames in order of arrival: the socket of
                        \* each, how far its handler has run and how it ended
    cache,              \* toolResultCache: the set of its entries
    services,           \* third_party_mcp_services table: id and owner of each row
    unhandled,          \* a promise was rejected with nothing handling it
    fnIn,               \* the arguments a function is called with
    fnOut               \* what the call returned

regVars == <<conns, sets, deviceConnections, rejected>>
tokVars == <<oauthRows, refreshPromises, refreshOps, callers, auths, oauth2Client>>
linkVars == <<linkTokens, issued, linkLog>>
dispVars == <<requests, cache, services, unhandled>>
fnVars == <<fnIn, fnOut>>

vars == <<conns, sets, deviceConnections, rejected, deviceRows, now,
          oauthRows, refreshPromises, refreshOps, callers, auths, oauth2Client,
          linkTokens, issued, linkLog, requests, cache, services, unhandled,
          fnIn, fnOut>>

\* ---------------------------------------------------------------- helpers
Range(s) == {s[i] : i \in 1..Len(s)}

RemoveAt(s, i) == SubSeq(s, 1, i - 1) \o SubSeq(s, i + 1, Len(s))

\* (variant: a delete that leaves the Set as it is)
Without_Kept(s, x) == s
\* Set.delete(x) on an insertion-ordered Set
Without(s, x) == SelectSeq(s, LAMBDA y : y # x)

\* the name of socket c once socket i of the same device has left wss.clients
Shift(c, i) == IF c > i THEN c - 1 ELSE c

ConnIds(d) == 1..Len(conns[d])

RECURSIVE SumOver(_, _)
SumOver(f, ds) ==
    IF ds = {} THEN 0
    ELSE LET d == CHOOSE x \in ds : TRUE IN f[d] + SumOver(f, ds \ {d})

\* wss.clients.size, sockets with a deviceId
NumConns == SumOver([d \in Devices |-> Len(conns[d])], Devices)

\* (variant: the flag is first set by the first pong)
NewSocket_Unanswered(sid) ==
    [state |-> "open", isAlive |-> FALSE, closeCode |-> 0, connections |-> sid,
     outbox |-> <<>>]

\* extWs as the 'connection' handler leaves it
NewSocket(sid) ==
    [state |-> "open", isAlive |-> TRUE, closeCode |-> 0, connections |-> sid,
     outbox |-> <<>>]

\* (variant: the value inserted last)
Newest(members) == members[Len(members)]
\* connections.values().next().value
Oldest(members) == Head(members)

\* deviceConnections.get(deviceId), as a sequence in insertion order
Tracked(d) ==
    IF deviceConnections[d] = NoSet THEN <<>> ELSE sets[d][deviceConnections[d]]

\* getOnlineDeviceIds()
getOnlineDeviceIds == {d \in Devices : deviceConnections[d] # NoSet}

\* getConnectionCount()
getConnectionCount == SumOver([d \in Devices |-> Len(Tracked(d))], Devices)

\* getActiveDeviceCount()
getActiveDeviceCount == Cardinality(getOnlineDeviceIds)

\* Set objects that neither the Map nor a live socket's handlers refer to are
\* unreachable; the remaining ones keep their order
Garbage(cs, ss, dc) ==
    {k \in 1..Len(ss) : dc # k /\ \A c \in 1..Len(cs) : cs[c].connections # k}
Compact(ss, g) ==
    LET keep == SelectSeq([k \in 1..Len(ss) |-> k], LAMBDA k : k \notin g)
    IN [j \in 1..Len(keep) |-> ss[keep[j]]]
Renamed(k, g) == IF k = NoSet THEN NoSet ELSE k - Cardinality({x \in g : x < k})

\* ------------------------------------------------------------------- Init
RegInit ==
    /\ conns = [d \in Devices |-> <<>>]
    /\ sets = [d \in Devices |-> <<>>]
    /\ deviceConnections = [d \in Devices |-> NoSet]
    /\ rejected = 0

\* new google.auth.OAuth2(...): a client that has been given no credentials
NoCredentials == 0

\* a getValidToken() call not made yet. `during` records the upstream refresh call
\* that was unanswered when the call was made and found a stale row
IdleCaller == [userId |-> "u1", pc |-> "idle", op |-> 0, initiator |-> FALSE,
               during |-> 0, result |-> "none", token |-> NoRow]

TokInit ==
    /\ oauthRows = [u \in Users |-> NoRow]
    /\ refreshPromises = [u \in Users |-> NoPromise]
    /\ refreshOps = <<>>
    /\ callers = [k \in Callers |-> IdleCaller]
    /\ auths = 0
    /\ oauth2Client = NoCredentials

LinkInit ==
    /\ linkTokens = {}
    /\ issued = 0
    /\ linkLog = [t \in 1..MaxLinkTokens |-> [ok |-> 0, late |-> FALSE]]

DispInit ==
    /\ requests = <<>>
    /\ cache = {}
    /\ unhandled = FALSE

\* no function of the function specifications has been called
FnInit ==
    /\ fnIn = NoCall
    /\ fnOut = NoCall

Init ==
    /\ RegInit /\ TokInit /\ LinkInit /\ DispInit /\ FnInit /\ now = 0
    /\ services = {}
    /\ deviceRows = [d \in Devices |-> Absent]

\* ---------------------------------------------------------------- actions
\* getOrCreateDevice(deviceId): inserts the row if there is none (user_id NULL)
getOrCreateDevice(d) ==
    IF deviceRows[d] = Absent THEN [deviceRows EXCEPT ![d] = Unlinked] ELSE deviceRows

\* wss.on('connection') for a request without deviceId: close(4001), nothing is
\* tracked and no handler is installed; the socket stays in wss.clients until it
\* has closed
ConnectionNoDevice ==
    /\ rejected < MaxAnon
    /\ rejected' = rejected + 1
    /\ UNCHANGED <<fnVars, conns, sets, deviceConnections, deviceRows, now, tokVars, linkVars, dispVars>>

\* the socket of a request without deviceId has closed
RejectedClosed ==
    /\ rejected > 0
    /\ rejected' = rejected - 1
    /\ UNCHANGED <<fnVars, conns, sets, deviceConnections, deviceRows, now, tokVars, linkVars, dispVars>>

\* wss.on('connection') with a deviceId
Connection(d) ==
    /\ NumConns < MaxConns
    /\ LET c == Len(conns[d]) + 1
           fresh == deviceConnections[d] = NoSet
           sid == IF fresh THEN Len(sets[d]) + 1 ELSE deviceConnections[d]
           members == IF fresh THEN <<>> ELSE sets[d][sid]
           full == Len(members) >= MAX_CONNECTIONS_PER_DEVICE
           oldest == Oldest(members)
           kept == IF full THEN Without(members, oldest) ELSE members
           closed == IF full /\ conns[d][oldest].state = "open"
                     THEN [conns[d] EXCEPT ![oldest].state = "closing",
                                           ![oldest].closeCode = CLOSE_TOO_MANY]
                     ELSE conns[d]
       IN /\ deviceRows' = getOrCreateDevice(d)
          /\ deviceConnections' = [deviceConnections EXCEPT ![d] = sid]
          /\ sets' = [sets EXCEPT ![d] = IF fresh THEN Append(@, <<c>>)
                                         ELSE [@ EXCEPT ![sid] = Append(kept, c)]]
          /\ conns' = [conns EXCEPT ![d] = Append(closed, NewSocket(sid))]
    /\ UNCHANGED <<fnVars, rejected, now, tokVars, linkVars, dispVars>>

\* ws.on('pong')
Pong(d, c) ==
    /\ conns[d][c].state \in {"open", "closing"}
    /\ conns' = [conns EXCEPT ![d][c].isAlive = TRUE]
    /\ UNCHANGED <<fnVars, sets, deviceConnections, rejected, deviceRows, now, tokVars, linkVars, dispVars>>

\* ws.on('close'): the socket has closed (peer close, completed close handshake,
\* network failure, or terminate()) and leaves wss.clients
OnClose(d, c) ==
    LET sid == conns[d][c].connections
        rest == [sets[d] EXCEPT ![sid] = Without(@, c)]
        dc == IF rest[sid] = <<>> THEN NoSet ELSE deviceConnections[d]
        cs == RemoveAt(conns[d], c)
        named == [k \in 1..Len(rest) |->
                    [j \in 1..Len(rest[k]) |-> Shift(rest[k][j], c)]]
        g == Garbage(cs, named, dc)
    IN /\ conns' = [conns EXCEPT ![d] =
                      [j \in 1..Len(cs) |-> [cs[j] EXCEPT !.connections = Renamed(@, g)]]]
       /\ sets' = [sets EXCEPT ![d] = Compact(named, g)]
       /\ deviceConnections' = [deviceConnections EXCEPT ![d] = Renamed(dc, g)]
       /\ requests' = [i \in 1..Len(requests) |->
              IF requests[i].dev = d
              THEN [requests[i] EXCEPT !.ws = IF @ = c THEN 0 ELSE Shift(@, c)]
              ELSE requests[i]]
       /\ UNCHANGED <<fnVars, rejected, deviceRows, now, tokVars, linkVars, cache, services,
                      unhandled>>

\* (variant: a tick that pings every socket and terminates none)
HeartbeatTick_PingOnly ==
    /\ conns' = [d \in Devices |-> [c \in ConnIds(d) |->
                    [conns[d][c] EXCEPT !.isAlive = FALSE]]]
    /\ UNCHANGED <<fnVars, sets, deviceConnections, rejected, deviceRows, now, tokVars, linkVars, dispVars>>

\* the setInterval callback: terminate the sockets that did not answer the last
\* ping, ping the others
HeartbeatTick ==
    /\ conns' = [d \in Devices |-> [c \in ConnIds(d) |->
                    IF conns[d][c].isAlive = FALSE
                    THEN [conns[d][c] EXCEPT !.state = "terminated"]
                    ELSE [conns[d][c] EXCEPT !.isAlive = FALSE]]]
    /\ UNCHANGED <<fnVars, sets, deviceConnections, rejected, deviceRows, now, tokVars, linkVars, dispVars>>

\* ------------------------------------------------------- message dispatcher
\* ws.readyState === ws.OPEN; socket 0 is one whose 'close' event has fired
IsOpen(cs, d, c) == c # 0 /\ cs[d][c].state = "open"

\* ws.send(JSON.stringify(frame)): transmitted only by a socket that is OPEN
Send(cs, d, c, frame) ==
    IF IsOpen(cs, d, c) THEN [cs EXCEPT ![d][c].outbox = Append(@, frame)] ELSE cs

\* an outbound frame: its type, the inbound frame it answers, and whether it
\* carries a requestId
Frame(type, i, id) == [type |-> type, req |-> i, id |-> id]

\* (variant: no error frame is sent)
sendError_Nothing(cs, d, c, i, id) == cs
\* sendError(ws, requestId, error)
sendError(cs, d, c, i, id) == Send(cs, d, c, Frame("error", i, id))

\* (variant: the reply goes to whichever socket of the device is open)
ReplySocket_OfDevice(cs, q) ==
    IF IsOpen(cs, q.dev, q.ws) \/ \A c \in 1..Len(cs[q.dev]) : cs[q.dev][c].state # "open"
    THEN q.ws
    ELSE CHOOSE c \in 1..Len(cs[q.dev]) : cs[q.dev][c].state = "open"
\* the ws the handler was called with
ReplySocket(cs, q) == q.ws

\* handleToolExecute after `await executeTool(...)` has returned, for request i
DeliverResult(cs, i, q) ==
    LET c == ReplySocket(cs, q)
    IN IF IsOpen(cs, q.dev, c) THEN Send(cs, q.dev, c, Frame("tool_result", i, q.id))
       ELSE cs

\* the catch of handleWebSocketMessage, for request i
DeliverError(cs, i, q) == sendError(cs, q.dev, ReplySocket(cs, q), i, q.id)

\* an inbound frame that has been handled to its end
Request(d, c, type, id) ==
    [dev |-> d, ws |-> c, type |-> type, id |-> id, pc |-> "done", exec |-> "none",
     result |-> "none", user |-> NoUser, key |-> NoKey, delivery |-> "none",
     call |-> NoCall, content |-> NoContent, servers |-> {}]

\* the request once executeTool has settled and the handler has run to its end
Finished(cs, q, exec, result) ==
    [q EXCEPT !.pc = "done", !.exec = exec, !.result = result, !.key = NoKey,
              !.delivery = IF IsOpen(cs, q.dev, q.ws) THEN "sent" ELSE "dropped"]

RECURSIVE DeliverAll(_, _, _)
\* the handlers of the requests in `todo` resume one after the other
DeliverAll(cs, rs, todo) ==
    IF todo = {} THEN cs
    ELSE LET i == CHOOSE x \in todo : \A y \in todo : x <= y
         IN DeliverAll(DeliverResult(cs, i, rs[i]), rs, todo \ {i})

\* ------------------------------------------------------ credential coordinator
\* the names of the tokens the provider hands out: at the n-th code exchange, and
\* in the answer to the r-th refresh call
AuthToken(n) == MaxRefreshes + n
RefreshedToken(r) == r

\* (variant: a token that expires in exactly five minutes counts as fresh)
Fresh_Inclusive(row) == row.expiresAt - now >= EXPIRY_BUFFER_MS
\* token.expiresAt - Date.now() > EXPIRY_BUFFER_MS
Fresh(row) == row.expiresAt - now > EXPIRY_BUFFER_MS

\* the upstream refresh calls for user u that the provider has not answered
InFlight(u) ==
    {r \in 1..Len(refreshOps) : refreshOps[r].userId = u /\ refreshOps[r].state = "pending"}

\* tokens.expiry_date / credentials.expiry_date as the provider may set it: absent
\* (0), inside the buffer, outside the buffer
ProviderExpiry == {0, now + EXPIRY_BUFFER_MS, now + 2 * EXPIRY_BUFFER_MS}

\* the provider's answers to a refresh call
RefreshOutcomes ==
    {[kind |-> "throws", rotate |-> FALSE, expiry |-> 0, held |-> FALSE],
     [kind |-> "no_access_token", rotate |-> FALSE, expiry |-> 0, held |-> FALSE]}
    \cup [kind : {"ok"}, rotate : BOOLEAN, expiry : ProviderExpiry, held : {FALSE}]

\* the clock moves on
AdvanceClock(limit) ==
    /\ now < limit * 5 * Minute
    /\ now' = now + 5 * Minute
    /\ UNCHANGED <<fnVars, regVars, deviceRows, tokVars, linkVars, dispVars>>

\* the OAuthToken that exchangeCodeForTokens builds from the provider's answer to
\* the n-th code exchange
ExchangedRow(n, expiry) ==
    [present |-> TRUE, accessToken |-> AuthToken(n), refreshToken |-> AuthToken(n),
     expiresAt |-> IF expiry = 0 THEN now + DEFAULT_EXPIRY_MS ELSE expiry,
     scope |-> n]

\* exchangeCodeForTokens(code), from the provider's answer on:
\* oauth2Client.setCredentials(tokens), storeTokens(user.id, oauthToken)
ExchangeCodeForTokens(u, expiry) ==
    /\ auths < MaxAuths
    /\ auths' = auths + 1
    /\ oauthRows' = [oauthRows EXCEPT ![u] = ExchangedRow(auths + 1, expiry)]
    /\ oauth2Client' = ExchangedRow(auths + 1, expiry).refreshToken
    /\ UNCHANGED <<fnVars, regVars, linkVars, deviceRows, now, refreshPromises, refreshOps, callers, dispVars>>

\* (variant: every refresh has a client of its own, the module's keeps what it had)
setCredentials_OwnClient(token) == oauth2Client
\* oauth2Client.setCredentials({ refresh_token: token.refreshToken })
setCredentials(token) == token.refreshToken

\* (variant: the in-flight map is not consulted)
ExistingRefresh_None(u) == NoPromise
\* refreshPromises.get(userId)
ExistingRefresh(u) == refreshPromises[u]

\* getValidToken(userId) up to its first await: returns null, returns the stored
\* token, joins the refresh in flight, or calls refreshToken() (which issues the
\* upstream call before it first awaits) and registers its promise
GetValidToken(k, u) ==
    LET row == oauthRows[u]
        stale == row.present /\ ~Fresh(row)
        existing == ExistingRefresh(u)
        starts == stale /\ existing = NoPromise
        r == Len(refreshOps) + 1
        during == IF stale /\ InFlight(u) # {} THEN CHOOSE x \in InFlight(u) : TRUE ELSE 0
    IN /\ starts => Len(refreshOps) < MaxRefreshes
       /\ callers' = [callers EXCEPT ![k] =
             IF ~row.present
             THEN [IdleCaller EXCEPT !.userId = u, !.pc = "done", !.result = "null"]
             ELSE IF Fresh(row)
             THEN [IdleCaller EXCEPT !.userId = u, !.pc = "done", !.result = "token",
                                     !.token = row]
             ELSE IF existing # NoPromise
             THEN [IdleCaller EXCEPT !.userId = u, !.pc = "awaiting", !.op = existing,
                                     !.during = during]
             ELSE [IdleCaller EXCEPT !.userId = u, !.pc = "awaiting", !.op = r,
                                     !.initiator = TRUE, !.during = during]]
       /\ refreshOps' = IF starts
                        THEN Append(refreshOps, [userId |-> u, state |-> "pending",
                                                 token |-> row, newToken |-> NoRow,
                                                 reply |-> NoReply])
                        ELSE refreshOps
       /\ refreshPromises' = IF starts THEN [refreshPromises EXCEPT ![u] = r]
                             ELSE refreshPromises
       /\ oauth2Client' = IF starts THEN setCredentials(row) ELSE oauth2Client
       /\ UNCHANGED <<oauthRows, auths>>

\* a caller (the tool orchestrator) calls getValidToken
CallGetValidToken(k, u) ==
    /\ callers[k].pc = "idle"
    /\ \A j \in Callers : j < k => callers[j].pc # "idle"
    /\ GetValidToken(k, u)
    /\ UNCHANGED <<fnVars, regVars, linkVars, deviceRows, now, dispVars>>

\* (variant: the refresh token is always taken from the provider's answer, which
\* has none (0) unless it rotates)
NewToken_FromReply(r, token, outcome) ==
    [present |-> TRUE,
     accessToken |-> RefreshedToken(r),
     refreshToken |-> IF outcome.rotate THEN RefreshedToken(r) ELSE 0,
     expiresAt |-> IF outcome.expiry = 0 THEN now + DEFAULT_EXPIRY_MS ELSE outcome.expiry,
     scope |-> token.scope]
\* the newToken that refreshToken(userId, token) builds from the credentials that
\* refreshAccessToken() returns for refresh call r: credentials.refresh_token is
\* absent, a new one from the provider, or (held) the one in the credentials of
\* the client, which is what the client's refreshAccessToken() puts there
NewToken(r, token, outcome) ==
    [present |-> TRUE,
     accessToken |-> RefreshedToken(r),
     refreshToken |-> IF outcome.held THEN oauth2Client
                      ELSE IF outcome.rotate THEN RefreshedToken(r)
                      ELSE token.refreshToken,
     expiresAt |-> IF outcome.expiry = 0 THEN now + DEFAULT_EXPIRY_MS ELSE outcome.expiry,
     scope |-> token.scope]

\* (variant: on a failure the call returns the token it had read)
Settled_StoredOnFailure(c, ok, newToken, stored) ==
    [c EXCEPT !.pc = "done", !.result = "token", !.token = IF ok THEN newToken ELSE stored]
\* an awaiting getValidToken() call once the promise has settled: `return newToken`
\* or the rejection
Settled(c, ok, newToken, stored) ==
    [c EXCEPT !.pc = "done", !.result = IF ok THEN "token" ELSE "error",
              !.token = IF ok THEN newToken ELSE NoRow]

\* (variant: the finally block leaves the entry in the map)
Deleted_Kept(u) == refreshPromises
\* refreshPromises.delete(userId)
Deleted(u) == [refreshPromises EXCEPT ![u] = NoPromise]

\* the provider answers refresh call r. refreshToken() resumes: on an answer with
\* an access token it builds newToken, storeTokens() writes the row and the promise
\* resolves; otherwise it throws. The initiator's finally block deletes the map
\* entry and every awaiting getValidToken() call settles with the promise, all in
\* the same run of the microtask queue. In that run too, every executeTool() call
\* that awaited the token goes on: with the token it invokes the built-in adapter,
\* on the failure it returns an error result, which handleToolExecute sends if the
\* socket is open.
RefreshSettle(r, outcome) ==
    /\ refreshOps[r].state = "pending"
    /\ LET op == refreshOps[r]
           u == op.userId
           ok == outcome.kind = "ok"
           newToken == NewToken(r, op.token, outcome)
           initiatorAwaits == \E k \in Callers : /\ callers[k].pc = "awaiting"
                                                 /\ callers[k].op = r
                                                 /\ callers[k].initiator
       IN /\ refreshOps' = [refreshOps EXCEPT
                ![r].state = IF ok THEN "resolved" ELSE "rejected",
                ![r].newToken = IF ok THEN newToken ELSE NoRow,
                ![r].reply = outcome]
          /\ oauthRows' = IF ok THEN [oauthRows EXCEPT ![u] = newToken] ELSE oauthRows
          /\ refreshPromises' = IF initiatorAwaits THEN Deleted(u) ELSE refreshPromises
          /\ callers' = [k \in Callers |->
                IF callers[k].pc = "awaiting" /\ callers[k].op = r
                THEN Settled(callers[k], ok, newToken, oauthRows[u])
                ELSE callers[k]]
    /\ LET resumed == {i \in 1..Len(requests) :
                          /\ requests[i].pc = "token"
                          /\ callers[i].pc = "awaiting" /\ callers[i].op = r}
       IN /\ requests' = [i \in 1..Len(requests) |->
                 IF i \notin resumed THEN requests[i]
                 ELSE IF outcome.kind = "ok" THEN [requests[i] EXCEPT !.pc = "adapter"]
                 ELSE Finished(conns, requests[i], "returned", "refresh_failed")]
          /\ conns' = IF outcome.kind = "ok" THEN conns
                      ELSE DeliverAll(conns, requests, resumed)
    /\ UNCHANGED <<fnVars, sets, deviceConnections, rejected, linkVars, deviceRows, now, auths,
                   oauth2Client, cache, services, unhandled>>

TokNext ==
    \/ AdvanceClock(MaxClock)
    \/ \E u \in Users : \E e \in ProviderExpiry : ExchangeCodeForTokens(u, e)
    \/ \E k \in Callers : \E u \in Users : CallGetValidToken(k, u)
    \/ \E r \in 1..Len(refreshOps) : \E o \in RefreshOutcomes : RefreshSettle(r, o)

SpecToken == Init /\ [][TokNext]_vars

\* C4: for every identity at most one upstream refresh call is unanswered at any
\* moment; a getValidToken call that finds the stored token within the buffer
\* while a refresh call is unanswered issues no call of its own, and receives the
\* outcome of that one call.
C4_SingleFlight ==
    /\ \A u \in Users : Cardinality(InFlight(u)) <= 1
    /\ \A k \in Callers :
          callers[k].during # 0 =>
              /\ ~callers[k].initiator
              /\ callers[k].op = callers[k].during
              /\ callers[k].pc = "done" =>
                    LET op == refreshOps[callers[k].during]
                    IN \/ /\ op.state = "resolved"
                          /\ callers[k].result = "token"
                          /\ callers[k].token = op.newToken
                       \/ /\ op.state = "rejected"
                          /\ callers[k].result = "error"

C4_Witness ==
    \E i, j, k \in Callers :
        /\ callers[i].initiator /\ callers[i].pc = "done"
        /\ j # k
        /\ callers[j].during = callers[i].op /\ callers[j].pc = "done"
        /\ callers[k].during = callers[i].op /\ callers[k].pc = "done"

\* getValidToken(userId) is called by caller k in this step
Calls(k) == callers[k].pc = "idle" /\ callers'[k].pc # "idle"

\* C18: getValidToken returns the stored token, with no upstream call, exactly
\* when its expiry is more than five minutes away; with no credential row it
\* returns null and makes no upstream call; with an expiry at most five minutes
\* away it returns nothing before a refresh for that identity - the one it
\* starts or the one in flight - has been answered, and the token it then returns
\* is the one that refresh produced
C18_FreshOrRefreshed ==
    /\ [][\A k \in Callers : Calls(k) =>
             LET row == oauthRows[callers'[k].userId]
                 c == callers'[k]
             IN IF ~row.present
                THEN c.pc = "done" /\ c.result = "null" /\ refreshOps' = refreshOps
                ELSE IF row.expiresAt - now > EXPIRY_BUFFER_MS
                THEN /\ c.pc = "done" /\ c.result = "token" /\ c.token = row
                     /\ refreshOps' = refreshOps
                ELSE /\ c.pc = "awaiting"
                     /\ refreshOps'[c.op].userId = c.userId
                     /\ refreshOps'[c.op].state = "pending"]_vars
    /\ [](\A k \in Callers :
             callers[k].pc = "done" /\ callers[k].op # 0 =>
                 LET op == refreshOps[callers[k].op]
                 IN IF op.state = "resolved"
                    THEN callers[k].result = "token" /\ callers[k].token = op.newToken
                    ELSE op.state = "rejected" /\ callers[k].result = "error")

\* one call found no row, one found a token that expired in exactly five minutes
\* or less and returned the token of the refresh it started, one returned the
\* stored token
C18_Witness ==
    \E i, j, k \in Callers :
        /\ callers[i].pc = "done" /\ callers[i].result = "null"
        /\ callers[j].pc = "done" /\ callers[j].initiator /\ callers[j].result = "token"
        /\ refreshOps[callers[j].op].token.expiresAt <= EXPIRY_BUFFER_MS
        /\ callers[k].pc = "done" /\ callers[k].op = 0 /\ callers[k].result = "token"

\* refresh call r is answered with tokens in this step
Succeeds(r) == refreshOps[r].state = "pending" /\ refreshOps'[r].state = "resolved"

Fails(r) == refreshOps[r].state = "pending" /\ refreshOps'[r].state = "rejected"

\* C19: when the upstream refresh fails, every call that awaits it - the one that
\* started it and those that joined - gets the failure and no token, the stored
\* row stays as it was, and no upstream refresh is issued except by a
\* getValidToken call that arrives afterwards
C19_FailureToAll ==
    /\ [][\A r \in 1..Len(refreshOps) : Fails(r) =>
             /\ oauthRows' = oauthRows
             /\ Len(refreshOps') = Len(refreshOps)
             /\ \A k \in Callers :
                   callers[k].pc = "awaiting" /\ callers[k].op = r =>
                       /\ callers'[k].pc = "done"
                       /\ callers'[k].result = "error"
                       /\ callers'[k].token = NoRow]_vars
    /\ [][Len(refreshOps') > Len(refreshOps) =>
             \E k \in Callers : /\ Calls(k)
                                 /\ callers'[k].initiator
                                 /\ callers'[k].op = Len(refreshOps')]_vars

\* a refresh failed, the call that started it and a call that joined it both got
\* the failure, and the row is the one the refresh was started with
C19_Witness ==
    \E r \in 1..Len(refreshOps) : \E j, k \in Callers :
        /\ refreshOps[r].state = "rejected"
        /\ oauthRows[refreshOps[r].userId] = refreshOps[r].token
        /\ callers[j].op = r /\ callers[j].initiator /\ callers[j].result = "error"
        /\ callers[k].op = r /\ ~callers[k].initiator /\ callers[k].result = "error"

\* C20: the in-flight map has an entry for an identity exactly while a refresh
\* call for it is unanswered - the entry is that call, and it is gone once the
\* call has succeeded or failed - and a getValidToken call that finds a stale
\* token and no unanswered refresh issues a new upstream call
C20_EntryWhileUnsettled ==
    /\ [](\A u \in Users :
             IF InFlight(u) = {} THEN refreshPromises[u] = NoPromise
             ELSE InFlight(u) = {refreshPromises[u]})
    /\ [][\A k \in Callers : Calls(k) =>
             LET u == callers'[k].userId
             IN oauthRows[u].present /\ oauthRows[u].expiresAt - now <= EXPIRY_BUFFER_MS
                   /\ InFlight(u) = {} =>
                       /\ Len(refreshOps') = Len(refreshOps) + 1
                       /\ callers'[k].initiator
                       /\ callers'[k].op = Len(refreshOps')
                       /\ refreshPromises'[u] = Len(refreshOps')]_vars

\* a refresh was answered, with a token that is stale again or with a failure,
\* and a later call has started the next refresh, which is in the map
C20_Witness ==
    \E u \in Users : \E k \in Callers :
        /\ Len(refreshOps) = 2
        /\ refreshOps[1].userId = u /\ refreshOps[1].state # "pending"
        /\ refreshPromises[u] = 2
        /\ callers[k].initiator /\ callers[k].op = 2 /\ callers[k].pc = "awaiting"

\* ------------------------------------- two identities and the one OAuth client
\* the code exchange that gave user u the credential it has
Granted(u) == IF u = "u1" THEN 1 ELSE 2

\* what refreshAccessToken() returns when two refreshes share the client: a
\* failure, or credentials whose refresh_token is absent, new, or the client's
SharedOutcomes ==
    {[kind |-> "throws", rotate |-> FALSE, expiry |-> 0, held |-> FALSE]}
    \cup {o \in [kind : {"ok"}, rotate : BOOLEAN, expiry : {0}, held : BOOLEAN] :
             ~(o.rotate /\ o.held)}

\* both users have signed in before and their access tokens are about to expire
SharedStart ==
    /\ RegInit /\ LinkInit /\ DispInit /\ FnInit /\ now = 0
    /\ services = {}
    /\ deviceRows = [d \in Devices |-> Absent]
    /\ oauthRows = [u \in Users |-> ExchangedRow(Granted(u), EXPIRY_BUFFER_MS)]
    /\ auths = Cardinality(Users)
    /\ refreshPromises = [u \in Users |-> NoPromise]
    /\ refreshOps = <<>>
    /\ callers = [k \in Callers |-> IdleCaller]
    /\ oauth2Client = NoCredentials

SharedNext ==
    \/ \E k \in Callers : \E u \in Users : CallGetValidToken(k, u)
    \/ \E r \in 1..Len(refreshOps) : \E o \in SharedOutcomes : RefreshSettle(r, o)

SpecShared == SharedStart /\ [][SharedNext]_vars

\* the tokens that derive from user u's own grant: the ones of its code exchange
\* and the ones in the answers to its own refresh calls
OwnTokens(u) ==
    {AuthToken(Granted(u))}
    \cup {RefreshedToken(r) : r \in {x \in 1..Len(refreshOps) : refreshOps[x].userId = u}}

\* C30: refreshes of distinct users can be unanswered at the same time and a
\* getValidToken call of one user awaits and receives only that user's refresh;
\* however two such refreshes interleave in the one OAuth client, the tokens
\* stored for a user and returned to its callers are that user's own: its stored
\* refresh token or what the provider answered to its own refresh
C30_OwnTokensOnly ==
    /\ \A k \in Callers :
          callers[k].pc = "awaiting" => refreshOps[callers[k].op].userId = callers[k].userId
    /\ \A u \in Users :
          oauthRows[u].present =>
              {oauthRows[u].accessToken, oauthRows[u].refreshToken} \subseteq OwnTokens(u)
    /\ \A k \in Callers :
          callers[k].result = "token" =>
              {callers[k].token.accessToken, callers[k].token.refreshToken}
                  \subseteq OwnTokens(callers[k].userId)

\* ------------------------------------------- signing in again during a refresh
\* the name of the tokens of a sign-in that was completed before the start
EarlierGrant == MaxRefreshes + MaxAuths + 1

\* the first user signed in earlier and its access token is about to expire; the
\* second user has never signed in
ReauthStart ==
    /\ RegInit /\ LinkInit /\ DispInit /\ FnInit /\ now = 0
    /\ services = {}
    /\ deviceRows = [d \in Devices |-> Absent]
    /\ oauthRows = [u \in Users |->
          IF u = "u1"
          THEN [present |-> TRUE, accessToken |-> EarlierGrant, refreshToken |-> EarlierGrant,
                expiresAt |-> EXPIRY_BUFFER_MS, scope |-> EarlierGrant]
          ELSE NoRow]
    /\ auths = 0
    /\ refreshPromises = [u \in Users |-> NoPromise]
    /\ refreshOps = <<>>
    /\ callers = [k \in Callers |-> IdleCaller]
    /\ oauth2Client = NoCredentials

ReauthNext ==
    \/ \E u \in Users : \E e \in ProviderExpiry : ExchangeCodeForTokens(u, e)
    \/ \E k \in Callers : \E u \in Users : CallGetValidToken(k, u)
    \/ \E r \in 1..Len(refreshOps) : \E o \in RefreshOutcomes : RefreshSettle(r, o)

SpecReauth == ReauthStart /\ [][ReauthNext]_vars

\* C36: when a code exchange has stored a new credential for a user while a
\* refresh for that user was unanswered, the row stored once the refresh has
\* succeeded too is still the one of the code exchange
C36_ReauthSurvives ==
    [][\A r \in 1..Len(refreshOps) :
          LET op == refreshOps[r]
          IN Succeeds(r) /\ oauthRows[op.userId].refreshToken # op.token.refreshToken
                 => oauthRows'[op.userId] = oauthRows[op.userId]]_vars

\* ---------------------------------------------------------- device link service
\* hashToken(token): the SHA-256 of the token, taken as free of collisions
hashToken(t) == <<"sha256", t>>

\* the n-th token generateToken(32) returns; 0 is a string that was never issued
LinkTokenIds == 1..MaxLinkTokens
Presentable == 0..issued

\* SELECT ... FROM link_tokens WHERE id = ?
LinkRows(t) == {row \in linkTokens : row.id = hashToken(t)}

\* generateLinkToken(userId, baseUrl)
generateLinkToken(u) ==
    /\ issued < MaxLinkTokens
    /\ issued' = issued + 1
    /\ linkTokens' = linkTokens \cup
           {[id |-> hashToken(issued + 1), userId |-> u,
             expiresAt |-> now + TOKEN_EXPIRY_MS, usedAt |-> NoTime, usedBy |-> NoDevice]}
    /\ UNCHANGED <<fnVars, regVars, deviceRows, now, tokVars, linkLog, dispVars>>

\* (variant: the row's used_at is not looked at)
validateLinkToken_IgnoreUsed(t) ==
    IF LinkRows(t) = {} THEN NoUser
    ELSE LET row == CHOOSE x \in LinkRows(t) : TRUE
         IN IF row.expiresAt < now THEN NoUser
            ELSE row.userId
\* (variant: the row's expires_at is not looked at)
validateLinkToken_IgnoreExpiry(t) ==
    IF LinkRows(t) = {} THEN NoUser
    ELSE LET row == CHOOSE x \in LinkRows(t) : TRUE
         IN IF row.usedAt # NoTime THEN NoUser
            ELSE row.userId
\* validateLinkToken(token): the user id, or null
validateLinkToken(t) ==
    IF LinkRows(t) = {} THEN NoUser
    ELSE LET row == CHOOSE x \in LinkRows(t) : TRUE
         IN IF row.usedAt # NoTime THEN NoUser
            ELSE IF row.expiresAt < now THEN NoUser
            ELSE row.userId

\* linkDeviceToUser(deviceId, userId): UPDATE devices ... WHERE id = ?
linkDeviceToUser(d, u) ==
    IF deviceRows[d] = Absent THEN deviceRows ELSE [deviceRows EXCEPT ![d] = u]

\* unlinkDevice(deviceId): UPDATE devices SET user_id = NULL ... WHERE id = ?
unlinkDevice(d) ==
    IF deviceRows[d] = Absent THEN deviceRows ELSE [deviceRows EXCEPT ![d] = Unlinked]

\* deleteDevice(deviceId, userId): DELETE FROM devices WHERE id = ? AND user_id = ?
deleteDevice(d, u) ==
    IF deviceRows[d] = u THEN [deviceRows EXCEPT ![d] = Absent] ELSE deviceRows

\* markTokenUsed(token, deviceId): UPDATE link_tokens SET used_at, used_by_device_id
markTokenUsed(t, d) ==
    {IF row.id = hashToken(t) THEN [row EXCEPT !.usedAt = now, !.usedBy = d] ELSE row :
        row \in linkTokens}

\* the record of the attempts made with each issued token: how many succeeded, and
\* whether one was refused after the token had been marked used
Attempted(t, ok) ==
    IF t \notin LinkTokenIds THEN linkLog
    ELSE [linkLog EXCEPT ![t] =
            [ok |-> IF ok THEN @.ok + 1 ELSE @.ok,
             late |-> @.late \/ (~ok /\ \E row \in LinkRows(t) : row.usedAt # NoTime)]]

\* linkDeviceWithToken(token, deviceId) and the body of POST /api/link/exchange
\* after its check of the parameters: validateLinkToken, linkDeviceToUser,
\* markTokenUsed, in one synchronous run
ConsumeLinkToken(t, d) ==
    LET userId == validateLinkToken(t)
    IN /\ deviceRows' = IF userId = NoUser THEN deviceRows ELSE linkDeviceToUser(d, userId)
       /\ linkTokens' = IF userId = NoUser THEN linkTokens ELSE markTokenUsed(t, d)
       /\ linkLog' = Attempted(t, userId # NoUser)
       /\ issued' = issued

\* a link_device frame handled by handleLinkDevice: the device id is the frame's
LinkDeviceFrame(t, d) ==
    /\ ConsumeLinkToken(t, d)
    /\ UNCHANGED <<fnVars, regVars, now, tokVars, dispVars>>

\* POST /api/link/exchange with linkToken and deviceId
LinkExchange(t, d) ==
    /\ ConsumeLinkToken(t, d)
    /\ UNCHANGED <<fnVars, regVars, now, tokVars, dispVars>>

\* (variant: a row is swept from the instant of its expiry on)
Purgeable_AtExpiry(row) == row.expiresAt <= now /\ row.usedAt = NoTime
\* (variant: used_at is not looked at)
Purgeable_Expired(row) == row.expiresAt < now
\* WHERE expires_at < ? AND used_at IS NULL, the parameter being Date.now()
Purgeable(row) == row.expiresAt < now /\ row.usedAt = NoTime

\* cleanupExpiredTokens(), every minute:
\* DELETE FROM link_tokens WHERE expires_at < ? AND used_at IS NULL
cleanupExpiredTokens ==
    /\ linkTokens' = {row \in linkTokens : ~Purgeable(row)}
    /\ UNCHANGED <<fnVars, regVars, deviceRows, now, tokVars, issued, linkLog, dispVars>>

\* an unlink_device frame handled by handleUnlinkDevice
UnlinkDeviceFrame(d) ==
    /\ deviceRows' = unlinkDevice(d)
    /\ UNCHANGED <<fnVars, regVars, now, tokVars, linkVars, dispVars>>

\* DELETE /api/devices/:deviceId and DELETE /console/api/devices/:deviceId of the
\* authenticated user u: the row is deleted, the sockets of the device are left
\* as they are
DeleteDevice(d, u) ==
    /\ deviceRows' = deleteDevice(d, u)
    /\ UNCHANGED <<fnVars, regVars, now, tokVars, linkVars, dispVars>>

LinkNext ==
    \/ AdvanceClock(MaxLinkClock)
    \/ \E u \in Users : generateLinkToken(u)
    \/ \E t \in Presentable : \E d \in Devices : LinkDeviceFrame(t, d)
    \/ \E t \in Presentable : \E d \in Devices : LinkExchange(t, d)
    \/ \E d \in Devices : UnlinkDeviceFrame(d)
    \/ cleanupExpiredTokens

\* the devices table as earlier connections left it: a row for each device id that
\* has connected before
LinkStart ==
    /\ RegInit /\ TokInit /\ LinkInit /\ DispInit /\ FnInit /\ now = 0
    /\ services = {}
    /\ deviceRows \in [Devices -> {Absent, Unlinked}]

SpecLink == LinkStart /\ [][LinkNext]_vars

Used(t) == \E row \in LinkRows(t) : row.usedAt # NoTime

\* C5: of the attempts made with one link token, by link_device frames and by
\* exchange requests in any order, at most one succeeds; the token is marked used
\* at a time that is not past its expiry; once it is marked used no attempt with
\* it succeeds.
C5_ConsumedOnce ==
    /\ [](\A t \in LinkTokenIds :
            /\ linkLog[t].ok <= 1
            /\ \A row \in LinkRows(t) : row.usedAt # NoTime => row.usedAt <= row.expiresAt)
    /\ [][\A t \in LinkTokenIds : Used(t) => linkLog'[t].ok = linkLog[t].ok]_vars

C5_Witness ==
    \E t \in LinkTokenIds : linkLog[t].ok = 1 /\ linkLog[t].late

\* consumed, past its expiry, or purged
Spent(t) ==
    /\ t <= issued
    /\ \/ LinkRows(t) = {}
       \/ \E row \in LinkRows(t) : row.usedAt # NoTime \/ row.expiresAt < now

\* C6: once a link token is marked used, past its expiry or purged,
\* validateLinkToken returns null for it in every later state.
C6_OneDirectional ==
    /\ [](\A t \in LinkTokenIds : Spent(t) => validateLinkToken(t) = NoUser)
    /\ [][\A t \in LinkTokenIds : Spent(t) => Spent(t)']_vars

C6_Witness ==
    \E t \in LinkTokenIds :
        /\ linkLog[t].late
        /\ \E row \in LinkRows(t) : row.usedAt # NoTime /\ row.expiresAt < now

\* a row of link_tokens is gone after the step
Purges == \E row \in linkTokens : \A x \in linkTokens' : x.id # row.id

\* C23: a step that deletes link-token rows deletes exactly the rows whose expiry
\* is before now and whose used-at is null and leaves the others as they are; no
\* step deletes a consumed row or a row that has not expired, and a consumed row
\* is never changed.
C23_SweepExact ==
    [][/\ Purges =>
             linkTokens' = {row \in linkTokens : row.usedAt # NoTime \/ row.expiresAt >= now}
       /\ \A row \in linkTokens :
             /\ row.usedAt # NoTime => row \in linkTokens'
             /\ row.expiresAt >= now => \E x \in linkTokens' : x.id = row.id]_vars

\* a token was issued and has expired unused, and the sweep has deleted its row
C23_Witness ==
    /\ issued > 0
    /\ \E t \in 1..issued : LinkRows(t) = {} /\ linkLog[t].ok = 0
    /\ now > TOKEN_EXPIRY_MS

\* C24: a step in which a link attempt marks a token of user u used for device d
\* leaves a devices row for d whose user_id is u (linked_at is set together with
\* user_id); no token is marked used without the device having been bound.
C24_ConsumedMeansBound ==
    [][\A row \in linkTokens : \A x \in linkTokens' :
          x.id = row.id /\ row.usedAt = NoTime /\ x.usedAt # NoTime =>
              deviceRows'[x.usedBy] = row.userId]_vars

\* C40: validateLinkToken accepts a token exactly when its row exists, its
\* used-at is null and now is not past its expiry, and no step deletes the row
\* of a token that validateLinkToken accepts at the instant of the step
C40_AcceptedIffLive ==
    /\ [](\A t \in Presentable :
            validateLinkToken(t) # NoUser
                <=> \E row \in LinkRows(t) : row.usedAt = NoTime /\ now <= row.expiresAt)
    /\ [][\A t \in Presentable :
            validateLinkToken(t) # NoUser => \E x \in linkTokens' : x.id = hashToken(t)]_vars

\* a token was accepted at the very instant of its expiry: its row was still
\* there and is now marked used
C40_Witness ==
    \E t \in LinkTokenIds :
        /\ linkLog[t].ok = 1
        /\ \E row \in LinkRows(t) : row.usedAt = row.expiresAt /\ now = row.expiresAt

\* ------------------------------------------ tool execution orchestrator
\* (variant: a device without owner acts for u1)
getDeviceUserId_Default(d) == IF deviceRows[d] \in Users THEN deviceRows[d] ELSE "u1"
\* getDeviceUserId(deviceId): row?.user_id ?? null
getDeviceUserId(d) == IF deviceRows[d] \in Users THEN deviceRows[d] ELSE NoUser

\* toolName.split('.')[0], a tool name being the tuple of its parts
Prefix(toolName) == toolName[1]

\* Object.keys(o), and o[k]
Keys(o) == {o.props[i].k : i \in 1..Len(o.props)}
Get(o, k) ==
    IF k \in Keys(o) THEN o.props[CHOOSE i \in 1..Len(o.props) : o.props[i].k = k].v
    ELSE Undefined

\* (variant: the property names in insertion order)
SortedKeys_Unsorted(o) == [i \in 1..Len(o.props) |-> o.props[i].k]
\* Object.keys(args).sort()
SortedKeys(o) == SelectSeq(KeyOrder, LAMBDA k : k \in Keys(o))

RECURSIVE stringify(_, _)
\* JSON.stringify(value, list): of every object, at every depth, the properties
\* named in the list and no others, in the order of the list. The text is given
\* as the value it denotes with its properties in the order they are written
stringify(v, list) ==
    IF v.t # "object" THEN v
    ELSE LET written == SelectSeq(list, LAMBDA k : k \in Keys(v))
         IN Obj([i \in 1..Len(written) |->
                    Prop(written[i], stringify(Get(v, written[i]), list))])

\* getToolCacheKey(toolName, args), for an args that is an object
getToolCacheKey(toolName, args) == <<toolName, stringify(args, SortedKeys(args))>>

\* toolResultCache.get(cacheKey): the entry, while it is no older than the TTL
CacheGet(key) == {e.content : e \in {x \in cache : x.key = key /\ now - x.setAt <= CACHE_TTL_MS}}

\* `if (cachedResult)`: an entry was found and its content is not the empty string
CacheHit(key) == \E content \in CacheGet(key) : ~content.empty

\* toolResultCache.set(cacheKey, content)
CacheSet(key, content) ==
    {e \in cache : e.key # key} \cup {[key |-> key, content |-> content, setAt |-> now]}

\* (variant: the content is stored whether the call succeeded or not)
CacheAfter_Always(ok, key, content) == CacheSet(key, content)
\* the cache once the switch of executeTool has ended: the set() is reached only
\* when nothing was thrown
CacheAfter(ok, key, content) == IF ok THEN CacheSet(key, content) ELSE cache

\* Number(v) of z.coerce: not a number for a string that does not spell one
IsNaN(v) == v.t \notin {"number", "numeric_string"}

\* the field z.coerce.number().int().min(lo).max(hi).default(def) of each schema
BoundedField(toolName) ==
    IF toolName = <<"calendar", "get_events">>
    THEN [name |-> "days", lo |-> 1, hi |-> MAX_DAYS, def |-> DEFAULT_DAYS]
    ELSE [name |-> "maxResults", lo |-> 1, hi |-> MAX_RESULTS, def |-> DEFAULT_MAX_RESULTS]

\* (variant: a number outside the range is moved to the nearest bound)
coerceBounded_Clamp(v, f) ==
    IF v = Undefined THEN [ok |-> TRUE, n |-> f.def]
    ELSE IF IsNaN(v) \/ v.twice % 2 # 0 THEN [ok |-> FALSE, n |-> 0]
    ELSE IF v.twice < 2 * f.lo THEN [ok |-> TRUE, n |-> f.lo]
    ELSE IF v.twice > 2 * f.hi THEN [ok |-> TRUE, n |-> f.hi]
    ELSE [ok |-> TRUE, n |-> v.twice \div 2]
\* z.coerce.number().int().min(lo).max(hi).default(def) applied to v
coerceBounded(v, f) ==
    IF v = Undefined THEN [ok |-> TRUE, n |-> f.def]
    ELSE IF IsNaN(v) THEN [ok |-> FALSE, n |-> 0]
    ELSE IF v.twice % 2 # 0 THEN [ok |-> FALSE, n |-> 0]
    ELSE IF v.twice < 2 * f.lo \/ v.twice > 2 * f.hi THEN [ok |-> FALSE, n |-> 0]
    ELSE [ok |-> TRUE, n |-> v.twice \div 2]

\* z.string().min(1) of the query of gmail.search (the strings of the model are
\* not empty)
RequiredString(toolName, args) ==
    toolName = <<"gmail", "search">> => Get(args, "query").t \in {"text", "numeric_string"}

\* title: z.string().min(1) and startTime: z.string().min(1) of
\* calendar.create_event: the ones of the two that the arguments break
RequiredStrings(args) ==
    {k \in {"title", "startTime"} : Get(args, k).t \notin {"text", "numeric_string"}}

\* (variant: every tool name and every argument map is let through)
validateAndCoerceArgs_Unchecked(toolName, args) ==
    [status |-> "ok", issues |-> {}, n |-> 0]
\* validateAndCoerceArgs(toolName, args): what it throws (a ZodError lists the
\* fields of all its issues), or the parsed bounded field that it hands on
validateAndCoerceArgs(toolName, args) ==
    LET f == BoundedField(toolName)
        c == coerceBounded(Get(args, f.name), f)
        issues == (IF RequiredString(toolName, args) THEN {} ELSE {"query"})
                  \cup (IF c.ok THEN {} ELSE {f.name})
    IN IF toolName \in WriteTools
       THEN IF RequiredStrings(args) = {} THEN [status |-> "ok", issues |-> {}, n |-> 0]
            ELSE [status |-> "invalid_arguments", issues |-> RequiredStrings(args), n |-> 0]
       ELSE IF toolName \notin Schemas THEN [status |-> "unknown_tool", issues |-> {}, n |-> 0]
       ELSE IF issues # {} THEN [status |-> "invalid_arguments", issues |-> issues, n |-> 0]
       ELSE [status |-> "ok", issues |-> {}, n |-> c.n]

\* getServiceById(serverId) and the owner check of executeThirdPartyTool
ServiceCheck(serverId, u) ==
    IF \A s \in services : s.id # serverId THEN "unknown_service"
    ELSE IF \E s \in services : s.id = serverId /\ s.owner # u THEN "access_denied"
    ELSE "ok"

\* truncateContent(result), the content being the identity it was fetched for,
\* whether it is longer than MAX_CONTENT_LENGTH and whether it is the empty string
truncateContent(u, size) ==
    [by |-> u, truncated |-> size = "large", empty |-> size = "empty"]

\* (variant: the call is routed by its serverId)
SyncOutcome_ByServerId(d, toolName, args, serverId) ==
    LET u == getDeviceUserId(d)
        key == getToolCacheKey(toolName, args)
        Outcome(exec, result) == [exec |-> exec, result |-> result, content |-> NoContent]
    IN IF u = NoUser THEN Outcome("returned", "not_linked")
       ELSE IF args = NoArgs THEN Outcome("rejected", "type_error")
       ELSE IF CacheHit(key)
       THEN [exec |-> "returned", result |-> "cached",
             content |-> CHOOSE content \in CacheGet(key) : TRUE]
       ELSE IF serverId \in BuiltIn
       THEN IF validateAndCoerceArgs(toolName, args).status # "ok"
            THEN Outcome("returned", validateAndCoerceArgs(toolName, args).status)
            ELSE Outcome("token", "none")
       ELSE IF ServiceCheck(serverId, u) # "ok"
       THEN Outcome("returned", ServiceCheck(serverId, u))
       ELSE Outcome("pending", "none")
\* executeTool(deviceId, call) up to its first await that leaves the microtask
\* queue, for a call that does not reach getValidToken: what it returns or throws,
\* or "pending" when it has issued the third-party HTTP call
SyncOutcome(d, toolName, args, serverId) ==
    LET u == getDeviceUserId(d)
        key == getToolCacheKey(toolName, args)
        Outcome(exec, result) == [exec |-> exec, result |-> result, content |-> NoContent]
    IN IF u = NoUser THEN Outcome("returned", "not_linked")
       ELSE IF args = NoArgs THEN Outcome("rejected", "type_error")
       ELSE IF CacheHit(key)
       THEN [exec |-> "returned", result |-> "cached",
             content |-> CHOOSE content \in CacheGet(key) : TRUE]
       ELSE IF Prefix(toolName) \in BuiltIn
       THEN IF validateAndCoerceArgs(toolName, args).status # "ok"
            THEN Outcome("returned", validateAndCoerceArgs(toolName, args).status)
            ELSE Outcome("token", "none")
       ELSE IF ServiceCheck(serverId, u) # "ok"
       THEN Outcome("returned", ServiceCheck(serverId, u))
       ELSE Outcome("pending", "none")

\* ---------------------------------------------------------- frame handlers
\* a frame arrives on a socket: one that is open, or one the server is closing
\* while the peer has not yet answered with its close frame
Receives(d, c) ==
    \/ conns[d][c].state = "open"
    \/ conns[d][c].state = "closing" /\ conns[d][c].closeCode = CLOSE_TOO_MANY

\* ws.on('message'): JSON.parse throws, the catch sends an error frame
OnMessageUnparseable(d, c) ==
    /\ Receives(d, c)
    /\ LET i == Len(requests) + 1
       IN /\ requests' = Append(requests, Request(d, c, "unparseable", FALSE))
          /\ conns' = Send(conns, d, c, Frame("error", i, FALSE))
    /\ UNCHANGED <<fnVars, sets, deviceConnections, rejected, deviceRows, now, tokVars,
                   linkVars, cache, services, unhandled>>

\* ws.on('message') with the text `null`: handleWebSocketMessage(extWs, null)
\* throws at message.type before its try; the promise it returns is rejected and
\* nothing awaits or catches it
OnMessageNull(d, c) ==
    /\ Receives(d, c)
    /\ requests' = Append(requests, Request(d, c, "null", FALSE))
    /\ unhandled' = TRUE
    /\ UNCHANGED <<fnVars, regVars, deviceRows, now, tokVars, linkVars, cache, services>>

\* ws.on('message') with a number, a string, a boolean or an array, or with an
\* object whose type is missing or unknown: the default branch
OnMessageUnknown(d, c, type, id) ==
    /\ Receives(d, c)
    /\ type = "scalar" => ~id
    /\ LET i == Len(requests) + 1
       IN /\ requests' = Append(requests, Request(d, c, type, id))
          /\ conns' = sendError(conns, d, c, i, id)
    /\ UNCHANGED <<fnVars, sets, deviceConnections, rejected, deviceRows, now, tokVars,
                   linkVars, cache, services, unhandled>>

\* a tool_execute frame: handleToolExecute, with executeTool and everything that
\* runs before control returns to the event loop
OnToolExecute(d, c, id, toolName, args, serverId) ==
    /\ Receives(d, c)
    /\ LET i == Len(requests) + 1
           u == getDeviceUserId(d)
           q == [Request(d, c, "tool_execute", id) EXCEPT !.user = u,
                    !.call = <<toolName, args, serverId>>]
           progress == Send(conns, d, c, Frame("tool_progress", i, id))
           sync == SyncOutcome(d, toolName, args, serverId)
       IN IF toolName = NoToolName
          THEN \* getToolProgressMessage(undefined) throws
               /\ requests' = Append(requests, Finished(conns, q, "none", "no_tool_name"))
               /\ conns' = DeliverError(conns, i, q)
               /\ UNCHANGED tokVars
          ELSE IF sync.exec = "token"
          THEN \* executeGmailToolWithAuth / executeCalendarToolWithAuth
               /\ GetValidToken(i, u)
               /\ IF callers'[i].pc = "awaiting"
                  THEN /\ requests' = Append(requests, [q EXCEPT !.pc = "token",
                               !.exec = "pending",
                               !.key = getToolCacheKey(toolName, args)])
                       /\ conns' = progress
                  ELSE IF callers'[i].result = "null"
                  THEN /\ requests' = Append(requests,
                               Finished(conns, q, "returned", "reauth"))
                       /\ conns' = DeliverResult(progress, i, q)
                  ELSE /\ requests' = Append(requests, [q EXCEPT !.pc = "adapter",
                               !.exec = "pending",
                               !.key = getToolCacheKey(toolName, args)])
                       /\ conns' = progress
          ELSE /\ UNCHANGED tokVars
               /\ IF sync.exec = "pending"
                  THEN /\ requests' = Append(requests, [q EXCEPT !.pc = "adapter",
                               !.exec = "pending",
                               !.key = getToolCacheKey(toolName, args)])
                       /\ conns' = progress
                  ELSE /\ requests' = Append(requests,
                               [Finished(conns, q, sync.exec, sync.result)
                                   EXCEPT !.content = sync.content])
                       /\ conns' = IF sync.exec = "rejected"
                                   THEN DeliverError(progress, i, q)
                                   ELSE DeliverResult(progress, i, q)
    /\ UNCHANGED <<fnVars, sets, deviceConnections, rejected, deviceRows, now, linkVars,
                   cache, services, unhandled>>

\* (variant: the built-in servers are listed whoever asks)
getAvailableServers_BuiltInAlways(d) ==
    BuiltIn \cup {s.id : s \in {x \in services : x.owner = getDeviceUserId(d)}}
\* getAvailableServers(deviceId): the ids of the servers listed, the built-in ones
\* and the third-party services of the owner; none for a device without owner
getAvailableServers(d) ==
    IF getDeviceUserId(d) = NoUser THEN {}
    ELSE BuiltIn \cup {s.id : s \in {x \in services : x.owner = getDeviceUserId(d)}}

\* a get_servers frame: handleGetServers, which asks for the device of the socket
OnGetServers(d, c, id) ==
    /\ Receives(d, c)
    /\ LET i == Len(requests) + 1
           q == [Request(d, c, "get_servers", id) EXCEPT
                    !.user = getDeviceUserId(d), !.servers = getAvailableServers(d)]
       IN /\ requests' = Append(requests, q)
          /\ conns' = Send(conns, d, c, Frame("servers_list", i, id))
    /\ UNCHANGED <<fnVars, sets, deviceConnections, rejected, deviceRows, now, tokVars,
                   linkVars, cache, services, unhandled>>

\* a get_user_account frame: handleGetUserAccount, which asks for the device id dm
\* of the frame; the request records whose account the reply carries
OnGetUserAccount(d, c, id, dm) ==
    /\ Receives(d, c)
    /\ LET i == Len(requests) + 1
           q == [Request(d, c, "get_user_account", id) EXCEPT !.user = getDeviceUserId(dm)]
       IN /\ requests' = Append(requests, q)
          /\ conns' = Send(conns, d, c, Frame("user_account", i, id))
    /\ UNCHANGED <<fnVars, sets, deviceConnections, rejected, deviceRows, now, tokVars,
                   linkVars, cache, services, unhandled>>

\* a link_device frame: handleLinkDevice
OnLinkDevice(d, c, id, t, dm) ==
    /\ Receives(d, c)
    /\ LET i == Len(requests) + 1
           q == Request(d, c, "link_device", id)
       IN IF t = NoLinkToken
          THEN \* hashToken(undefined) throws
               /\ requests' = Append(requests, [q EXCEPT !.result = "no_link_token"])
               /\ conns' = sendError(conns, d, c, i, id)
               /\ UNCHANGED <<deviceRows, linkVars>>
          ELSE /\ ConsumeLinkToken(t, dm)
               /\ IF validateLinkToken(t) = NoUser
                  THEN /\ requests' = Append(requests, [q EXCEPT !.result = "invalid_token"])
                       /\ conns' = sendError(conns, d, c, i, id)
                  ELSE /\ requests' = Append(requests, [q EXCEPT !.result = "linked"])
                       /\ conns' = Send(conns, d, c, Frame("link_result", i, id))
    /\ UNCHANGED <<fnVars, sets, deviceConnections, rejected, now, tokVars, cache, services,
                   unhandled>>

\* an unlink_device frame: handleUnlinkDevice
OnUnlinkDevice(d, c, id, dm) ==
    /\ Receives(d, c)
    /\ LET i == Len(requests) + 1
       IN /\ requests' = Append(requests, Request(d, c, "unlink_device", id))
          /\ deviceRows' = unlinkDevice(dm)
          /\ conns' = Send(conns, d, c, Frame("unlink_result", i, id))
    /\ UNCHANGED <<fnVars, sets, deviceConnections, rejected, now, tokVars, linkVars, cache,
                   services, unhandled>>

\* the built-in adapter or the third-party HTTP call of request i answers:
\* executeTool truncates and caches the content and returns, or catches the
\* failure and returns it; handleToolExecute sends the result if the socket is open
\* (the built-in adapters return a sentence even when they found nothing; a
\* third-party server may answer with no text at all)
AdapterSettle(i, outcome) ==
    /\ requests[i].pc = "adapter"
    /\ outcome = "empty" => Prefix(requests[i].call[1]) \notin BuiltIn
    /\ LET q == requests[i]
           ok == outcome # "fails"
       IN /\ cache' = CacheAfter(ok, q.key, truncateContent(q.user, outcome))
          /\ requests' = [requests EXCEPT ![i] =
                 [Finished(conns, q, "returned", IF ok THEN "success" ELSE "upstream_error")
                     EXCEPT !.content = IF ok THEN truncateContent(q.user, outcome)
                                        ELSE NoContent]]
          /\ conns' = DeliverResult(conns, i, q)
    /\ UNCHANGED <<fnVars, sets, deviceConnections, rejected, deviceRows, now, tokVars,
                   linkVars, services, unhandled>>

\* the peer's close frame has arrived while a tool call of this socket is being
\* executed: the socket is CLOSING until its 'close' event fires. (On a socket with
\* no call in progress no handler runs between the two, and OnClose covers both.)
PeerClosing(d, c) ==
    /\ conns[d][c].state = "open"
    /\ \E i \in 1..Len(requests) :
          requests[i].dev = d /\ requests[i].ws = c /\ requests[i].pc # "done"
    /\ conns' = [conns EXCEPT ![d][c].state = "closing"]
    /\ UNCHANGED <<fnVars, sets, deviceConnections, rejected, deviceRows, now, tokVars,
                   linkVars, dispVars>>

\* the tool_execute frames a client sends: tool name, arguments and server id
ToolCalls ==
    {<<t, a, s>> \in (ToolNames \cup {NoToolName}) \X (ArgMaps \cup {NoArgs}) \X ServerIds :
        (t = NoToolName \/ Prefix(t) \in BuiltIn) => s = "s1"}

\* the answers to a refresh that the dispatcher can tell apart
DispRefreshOutcomes ==
    {o \in RefreshOutcomes : o.kind = "throws" \/ (o.kind = "ok" /\ ~o.rotate /\ o.expiry = 0)}

\* the dispatcher and the orchestrator on the connections of one device
DispDevices == {"d1"}
DispNext ==
    \/ \E d \in DispDevices : NumConns < MaxDispConns /\ Connection(d)
    \/ \E d \in DispDevices : \E c \in ConnIds(d) : PeerClosing(d, c)
    \/ \E d \in DispDevices : \E c \in ConnIds(d) : OnClose(d, c)
    \/ \E d \in DispDevices : \E c \in ConnIds(d) :
          Len(requests) < MaxFrames /\ OnMessageUnparseable(d, c)
    \/ \E d \in DispDevices : \E c \in ConnIds(d) :
          Len(requests) < MaxFrames /\ OnMessageNull(d, c)
    \/ \E d \in DispDevices : \E c \in ConnIds(d) : \E type \in {"scalar", "unknown"} :
          \E id \in BOOLEAN : Len(requests) < MaxFrames /\ OnMessageUnknown(d, c, type, id)
    \/ \E d \in DispDevices : \E c \in ConnIds(d) : \E call \in ToolCalls :
          Len(requests) < MaxFrames /\ OnToolExecute(d, c, TRUE, call[1], call[2], call[3])
    \/ \E d \in DispDevices : \E c \in ConnIds(d) :
          Len(requests) < MaxFrames /\ OnGetServers(d, c, TRUE)
    \/ \E d \in DispDevices : \E c \in ConnIds(d) : \E dm \in Devices :
          Len(requests) < MaxFrames /\ OnGetUserAccount(d, c, TRUE, dm)
    \/ \E d \in DispDevices : \E c \in ConnIds(d) :
          \E t \in Presentable \cup {NoLinkToken} : \E dm \in Devices :
              Len(requests) < MaxFrames /\ OnLinkDevice(d, c, TRUE, t, dm)
    \/ \E d \in DispDevices : \E c \in ConnIds(d) : \E dm \in Devices :
          Len(requests) < MaxFrames /\ OnUnlinkDevice(d, c, TRUE, dm)
    \/ \E i \in 1..Len(requests) : \E o \in {"fails", "small", "large"} : AdapterSettle(i, o)
    \/ \E r \in 1..Len(refreshOps) : \E o \in DispRefreshOutcomes : RefreshSettle(r, o)

\* the tables as earlier sessions left them: the device linked or never seen, a
\* credential stored for its owner by a code exchange or none, a third-party
\* service registered by one of the users
DispStart ==
    /\ RegInit /\ LinkInit /\ DispInit /\ FnInit /\ now = 0
    /\ deviceRows \in {[d \in Devices |-> IF d \in DispDevices THEN x ELSE Absent] :
                          x \in {Absent, "u1"}}
    /\ services \in {{[id |-> "s1", owner |-> u]} : u \in Users}
    /\ refreshPromises = [u \in Users |-> NoPromise]
    /\ refreshOps = <<>>
    /\ callers = [k \in Callers |-> IdleCaller]
    /\ oauth2Client = NoCredentials
    /\ \/ /\ oauthRows = [u \in Users |-> NoRow]
          /\ auths = 0
       \/ \E e \in ProviderExpiry \ {0} :
          /\ oauthRows = [u \in Users |-> IF u = "u1" THEN ExchangedRow(1, e) ELSE NoRow]
          /\ auths = 1

SpecDisp == DispStart /\ [][DispNext]_vars

ReqIds == 1..Len(requests)

\* the socket request i arrived on is open
StaysOpen(i) == IsOpen(conns, requests[i].dev, requests[i].ws)

\* the frames sent for request i on the socket it arrived on, in order
SentFor(i) ==
    SelectSeq(conns[requests[i].dev][requests[i].ws].outbox, LAMBDA f : f.req = i)
TypesSentFor(i) == [k \in 1..Len(SentFor(i)) |-> SentFor(i)[k].type]

\* the terminal frames sent for request i on any socket
TerminalFrames(i) ==
    {<<d, c, k>> \in Devices \X (1..MaxConns + 1) \X (1..2 * (MaxFrames + 1)) :
        /\ c \in ConnIds(d)
        /\ k <= Len(conns[d][c].outbox)
        /\ conns[d][c].outbox[k].req = i
        /\ conns[d][c].outbox[k].type \in {"tool_result", "error"}}

\* C7: executeTool never throws and its promise never rejects, whatever tool call
\* the dispatcher hands it.
C7_NeverRejects == \A i \in ReqIds : requests[i].exec # "rejected"

\* C8 as stated: every tool_execute frame on a connection that stays open gets
\* its tool_progress frame first and then exactly one terminal frame.
C8_ProgressThenTerminal ==
    \A i \in ReqIds :
        requests[i].type = "tool_execute" /\ StaysOpen(i) =>
            IF requests[i].pc = "done"
            THEN TypesSentFor(i) \in {<<"tool_progress", "tool_result">>,
                                      <<"tool_progress", "error">>}
            ELSE TypesSentFor(i) = <<"tool_progress">>

\* C8: for every tool_execute frame on a connection that stays open, at most one
\* tool_progress frame is sent (none when toolName is not a string), it precedes
\* the terminal frame, exactly one terminal frame (tool_result, or error) is sent
\* once the request has ended, and nothing follows the terminal frame.
C8_TerminalOnce ==
    \A i \in ReqIds :
        requests[i].type = "tool_execute" /\ StaysOpen(i) =>
            IF requests[i].pc # "done" THEN TypesSentFor(i) = <<"tool_progress">>
            ELSE IF requests[i].result = "no_tool_name" THEN TypesSentFor(i) = <<"error">>
            ELSE IF requests[i].exec = "rejected"
            THEN TypesSentFor(i) = <<"tool_progress", "error">>
            ELSE TypesSentFor(i) = <<"tool_progress", "tool_result">>

C8_Witness ==
    \E i \in ReqIds :
        /\ StaysOpen(i) /\ requests[i].result = "success"
        /\ TypesSentFor(i) = <<"tool_progress", "tool_result">>

\* frames that are not a well-formed request
Malformed(i) ==
    \/ requests[i].type \in {"unparseable", "null", "scalar", "unknown"}
    \/ requests[i].result \in {"no_tool_name", "no_link_token"}

\* C9: every malformed inbound frame is answered with one error frame, carrying the
\* requestId exactly when the frame had one, and no frame leaves a rejected promise
\* unhandled.
C9_ErrorFrame ==
    /\ ~unhandled
    /\ \A i \in ReqIds :
          Malformed(i) /\ StaysOpen(i) =>
              SentFor(i) = <<Frame("error", i, requests[i].id)>>

\* C10: a frame is only ever sent on the socket its request arrived on, at most
\* one terminal frame is sent for a request, and for a request whose socket was
\* not OPEN when executeTool returned no terminal frame is sent on any socket,
\* then or later.
C10_DroppedWhenClosed ==
    /\ \A d \in Devices : \A c \in ConnIds(d) : \A k \in 1..Len(conns[d][c].outbox) :
          LET q == requests[conns[d][c].outbox[k].req]
          IN q.dev = d /\ q.ws = c
    /\ \A i \in ReqIds :
          /\ Cardinality(TerminalFrames(i)) <= 1
          /\ requests[i].delivery = "dropped" => TerminalFrames(i) = {}

C10_Witness ==
    \E i \in ReqIds :
        /\ requests[i].result = "success"
        /\ requests[i].delivery = "dropped"
        /\ \E c \in ConnIds(requests[i].dev) : conns[requests[i].dev][c].state = "open"

\* ------------------------------------------------- the orchestrator's calls
\* the tool calls the devices make in the orchestrator specification
ExecCalls ==
    {<<<<"gmail", "get_unread">>, Obj(<<Prop("maxResults", Num(10))>>), "s1">>,
     <<<<"gmail", "get_unread">>, Obj(<<Prop("maxResults", Num(999))>>), "s1">>,
     <<<<"acme", "run">>, Obj(<<Prop("maxResults", Num(10))>>), "s1">>,
     <<<<"acme", "run">>, Obj(<<Prop("maxResults", Num(10))>>), "s9">>}

\* what the adapter or the third-party server answers: a failure, the empty
\* string, a short text
ExecAnswers == {"fails", "empty", "small"}

\* executeTool as two connected devices call it, the clock moving on between calls
ExecNext ==
    \/ \E d \in Devices : \E call \in ExecCalls :
          Len(requests) < MaxCalls /\ OnToolExecute(d, 1, TRUE, call[1], call[2], call[3])
    \/ \E i \in 1..Len(requests) : \E o \in ExecAnswers : AdapterSettle(i, o)
    \/ \E r \in 1..Len(refreshOps) : \E o \in DispRefreshOutcomes : RefreshSettle(r, o)
    \/ AdvanceClock(MaxExecClock)

\* each device has connected once; d1 is linked to u1, who has registered the
\* service s1 and has a credential from a code exchange; d2 is linked to either
\* user or to none
ExecStart ==
    /\ conns = [d \in Devices |-> <<NewSocket(1)>>]
    /\ sets = [d \in Devices |-> << <<1>> >>]
    /\ deviceConnections = [d \in Devices |-> 1]
    /\ rejected = 0
    /\ LinkInit /\ DispInit /\ FnInit /\ now = 0
    /\ deviceRows \in {[d \in Devices |-> IF d = "d1" THEN "u1" ELSE x] :
                          x \in {Unlinked, "u1", "u2"}}
    /\ services = {[id |-> "s1", owner |-> "u1"]}
    /\ oauthRows = [u \in Users |-> IF u = "u1"
                                    THEN ExchangedRow(1, 2 * EXPIRY_BUFFER_MS) ELSE NoRow]
    /\ auths = 1
    /\ refreshPromises = [u \in Users |-> NoPromise]
    /\ refreshOps = <<>>
    /\ callers = [k \in Callers |-> IdleCaller]
    /\ oauth2Client = NoCredentials

SpecExec == ExecStart /\ [][ExecNext]_vars

\* request i is a tool call with a tool name and an argument map
IsToolCall(q) == q.type = "tool_execute" /\ q.call[1] # NoToolName /\ q.call[2] # NoArgs

\* the key of the tool call q
KeyOf(q) == getToolCacheKey(q.call[1], q.call[2])

\* the cache entries under a key that the TTL has not expired
LiveEntries(key) == {e \in cache : e.key = key /\ now - e.setAt <= CACHE_TTL_MS}

\* the tool call that arrives in this step, if one does
Arriving == requests'[Len(requests')]
Arrives == Len(requests') > Len(requests) /\ IsToolCall(Arriving)

\* C11: a successful provider call stores the returned content under the key of
\* the call, and every call of a linked device that finds an entry under its key
\* within the TTL ends as a success with the entry's content, without validation,
\* credential lookup or provider call - whatever the content is, the empty
\* string included
C11_CachedContentReturned ==
    [][/\ \A i \in ReqIds :
             requests[i].pc = "adapter" /\ requests'[i].result = "success" =>
                 [key |-> KeyOf(requests[i]), content |-> requests'[i].content,
                  setAt |-> now] \in cache'
       /\ Arrives /\ Arriving.user # NoUser =>
             \A e \in LiveEntries(KeyOf(Arriving)) :
                 /\ Arriving.pc = "done"
                 /\ Arriving.result = "cached"
                 /\ Arriving.content = e.content
                 /\ tokVars' = tokVars]_vars

\* the results that are failures
Failures ==
    {"not_linked", "type_error", "no_tool_name", "unknown_tool", "invalid_arguments",
     "unknown_service", "access_denied", "reauth", "refresh_failed", "upstream_error"}

\* request i ends in this step
Ends(i) ==
    /\ i \in 1..Len(requests')
    /\ requests'[i].pc = "done"
    /\ i \in ReqIds => requests[i].pc # "done"

C14_NotLinkedFirst ==
    [][Arrives /\ deviceRows[Arriving.dev] \notin Users =>
          /\ Arriving.pc = "done"
          /\ Arriving.exec = "returned"
          /\ Arriving.result = "not_linked"
          /\ Arriving.content = NoContent
          /\ cache' = cache
          /\ tokVars' = tokVars]_vars

\* a call succeeded, its content is in the cache and has not expired, and the
\* same call of a device without owner ended as not-linked
C14_Witness ==
    \E i, j \in ReqIds :
        /\ i < j
        /\ requests[i].result = "success"
        /\ requests[j].result = "not_linked"
        /\ requests[j].call = requests[i].call
        /\ \E e \in LiveEntries(KeyOf(requests[i])) : ~e.content.empty

\* C15: a third-party call whose serverId names a registered service that the
\* identity of the calling device does not own ends as access-denied and starts
\* no outbound call, whatever the cache holds
C15_OwnerOnly ==
    [][/\ Arrives
       /\ Arriving.user # NoUser
       /\ Prefix(Arriving.call[1]) \notin BuiltIn
       /\ \E s \in services : s.id = Arriving.call[3] /\ s.owner # Arriving.user
       => /\ Arriving.pc = "done"
          /\ Arriving.result = "access_denied"]_vars

\* C25: a built-in tool call with valid arguments and nothing cached for it ends
\* as re-authentication-required, without the adapter having been called, when
\* its identity has no stored credential and when the refresh of its stale
\* credential fails
C25_ReauthRequired ==
    [][/\ Arrives
          /\ Arriving.user # NoUser
          /\ Prefix(Arriving.call[1]) \in BuiltIn
          /\ ~CacheHit(KeyOf(Arriving))
          /\ validateAndCoerceArgs(Arriving.call[1], Arriving.call[2]).status = "ok"
          /\ ~oauthRows[Arriving.user].present
          => Arriving.pc = "done" /\ Arriving.result = "reauth"
       /\ \A i \in ReqIds :
             /\ requests[i].pc = "token"
             /\ refreshOps'[callers[i].op].state = "rejected"
             => requests'[i].pc = "done" /\ requests'[i].result = "reauth"]_vars

\* C27: the content a call returns to a device was fetched for the identity that
\* owns the device: content cached by a call of one identity is never returned
\* to a call of another
C27_OwnContentOnly ==
    \A i \in ReqIds :
        requests[i].result \in {"success", "cached"} =>
            requests[i].content.by = requests[i].user

\* ----------------------------------------------------------- the cache key
\* everything but the function variables, in the state after construction
Constructed ==
    /\ RegInit /\ TokInit /\ LinkInit /\ DispInit /\ now = 0
    /\ services = {}
    /\ deviceRows = [d \in Devices |-> Absent]

\* the sequences that list each element of S once
Orderings(S) ==
    {ks \in [1..Cardinality(S) -> S] : \A i, j \in 1..Cardinality(S) : ks[i] = ks[j] => i = j}

\* the objects with property names among `names` and values among `vals`, in
\* every insertion order
Objects(names, vals) ==
    UNION {{Obj([i \in 1..Len(ks) |-> Prop(ks[i], f[i])]) : f \in [1..Len(ks) -> vals]} :
              ks \in UNION {Orderings(S) : S \in SUBSET names}}

\* the argument maps the key is computed for: numbers and objects of two
\* properties as values
KeyNames == {"a", "b"}
KeyArgs ==
    Objects(KeyNames, {Num(1)} \cup {o \in Objects(KeyNames, {Num(1), Num(2)}) :
                                        Len(o.props) = Cardinality(KeyNames)})

\* getToolCacheKey(toolName, a1) and getToolCacheKey(toolName, a2)
CallGetToolCacheKey ==
    /\ fnOut = NoCall
    /\ fnOut' = <<getToolCacheKey(fnIn.tool, fnIn.a1), getToolCacheKey(fnIn.tool, fnIn.a2)>>
    /\ UNCHANGED <<regVars, deviceRows, now, tokVars, linkVars, dispVars, fnIn>>

KeyStart ==
    /\ Constructed
    /\ fnIn \in [tool : {<<"acme", "run">>}, a1 : KeyArgs, a2 : KeyArgs]
    /\ fnOut = NoCall

KeyNext == CallGetToolCacheKey

SpecKey == KeyStart /\ [][KeyNext]_vars

RECURSIVE SameValue(_, _)
\* two values with the same property names and the same values under them,
\* whatever the order of insertion
SameValue(x, y) ==
    IF x.t = "object" /\ y.t = "object"
    THEN Keys(x) = Keys(y) /\ \A k \in Keys(x) : SameValue(Get(x, k), Get(y, k))
    ELSE x = y

\* C13: two argument maps with the same keys and values, differing at most in
\* the insertion order of keys at the top level or inside nested objects, get
\* the same cache key
C13_KeyOrderIndependent ==
    fnOut # NoCall /\ SameValue(fnIn.a1, fnIn.a2) => fnOut[1] = fnOut[2]

\* C35: two argument maps of the same tool that differ in a value, be it only
\* inside a nested object, get different cache keys, so that a hit returns only
\* content produced for an equal argument map
C35_DistinctArgsDistinctKeys ==
    fnOut # NoCall /\ ~SameValue(fnIn.a1, fnIn.a2) => fnOut[1] # fnOut[2]

\* the keys of two maps that differ in insertion order at the top level and
\* inside a nested object
C13_Witness ==
    /\ fnOut # NoCall
    /\ SameValue(fnIn.a1, fnIn.a2)
    /\ Len(fnIn.a1.props) = 2
    /\ fnIn.a1.props[1].k # fnIn.a2.props[1].k
    /\ \E k \in Keys(fnIn.a1) :
          Get(fnIn.a1, k).t = "object" /\ Get(fnIn.a1, k) # Get(fnIn.a2, k)

\* ------------------------------------------------ validation of arguments
\* the values tried for a bounded field: whole numbers and halves, as numbers
\* and as strings, a string that spells no number, and no value
Numbers == (-1)..MaxNumber \cup {999}
FieldValues ==
    {Num(n) : n \in Numbers} \cup {NumStr(n) : n \in Numbers}
    \cup {Half(n) : n \in Numbers} \cup {HalfStr(n) : n \in Numbers}
    \cup {Text, Undefined}

\* the argument map with value v for the bounded field of the tool (none for
\* undefined), with the query of gmail.search or without
ArgsWith(toolName, v, query) ==
    Obj((IF query THEN <<Prop("query", Text)>> ELSE <<>>)
        \o (IF v = Undefined THEN <<>> ELSE <<Prop(BoundedField(toolName).name, v)>>))

\* validateAndCoerceArgs(call.toolName, call.arguments)
CallValidateAndCoerceArgs ==
    /\ fnOut = NoCall
    /\ fnOut' = validateAndCoerceArgs(fnIn.tool, fnIn.args)
    /\ UNCHANGED <<regVars, deviceRows, now, tokVars, linkVars, dispVars, fnIn>>

ArgsStart ==
    /\ Constructed
    /\ fnIn \in {[tool |-> t, args |-> ArgsWith(t, v, query)] :
                     t \in Schemas, v \in FieldValues, query \in BOOLEAN}
    /\ fnOut = NoCall

ArgsNext == CallValidateAndCoerceArgs

SpecArgs == ArgsStart /\ [][ArgsNext]_vars

\* the value given for the bounded field is a whole number, or the string of
\* one, within the range of the field
WholeInRange(v, f) ==
    /\ v.t \in {"number", "numeric_string"}
    /\ \E n \in f.lo..f.hi : v.twice = 2 * n

\* C16: for the bounded field of gmail.get_unread, gmail.search and
\* calendar.get_events, the other arguments being valid: a whole number or the
\* string of one within the range is accepted and handed on as that number; any
\* other number or string is rejected as invalid arguments naming the field; an
\* absent value gives the default
C16_BoundedFields ==
    fnOut # NoCall /\ RequiredString(fnIn.tool, fnIn.args) =>
        LET f == BoundedField(fnIn.tool)
            v == Get(fnIn.args, f.name)
        IN IF v = Undefined THEN fnOut.status = "ok" /\ fnOut.n = f.def
           ELSE IF WholeInRange(v, f)
           THEN fnOut.status = "ok" /\ 2 * fnOut.n = v.twice
           ELSE fnOut.status = "invalid_arguments" /\ f.name \in fnOut.issues

\* gmail.get_unread with maxResults "999" was rejected, naming maxResults
C16_Witness ==
    /\ fnOut # NoCall
    /\ fnIn.tool = <<"gmail", "get_unread">>
    /\ Get(fnIn.args, "maxResults") = NumStr(999)
    /\ fnOut.status = "invalid_arguments"
    /\ fnOut.issues = {"maxResults"}

\* ---------------------------------------------------- truncation of content
\* a content is the sequence of its characters: a letter, a full stop, a space
\* (one byte each in UTF-8), a character of two bytes, one of three, and U+FFFD
\* (three bytes), each one UTF-16 code unit
Chars == {"x", ".", " ", "two", "three"}
Replacement == "fffd"
Bytes(ch) == IF ch = "two" THEN 2 ELSE IF ch \in {"three", Replacement} THEN 3 ELSE 1

RECURSIVE byteLength(_)
\* Buffer.byteLength(content, 'utf8')
byteLength(content) ==
    IF content = <<>> THEN 0 ELSE Bytes(Head(content)) + byteLength(Tail(content))

RECURSIVE Whole(_, _)
\* the characters of the content that lie entirely within its first n bytes
Whole(content, n) ==
    IF content = <<>> \/ Bytes(Head(content)) > n THEN <<>>
    ELSE <<Head(content)>> \o Whole(Tail(content), n - Bytes(Head(content)))

\* Buffer.from(content, 'utf8').subarray(0, n).toString('utf8'): the bytes of a
\* character that was cut decode to U+FFFD
decodeFirst(content, n) ==
    LET whole == Whole(content, n)
    IN IF Len(whole) < Len(content) /\ byteLength(whole) < n
       THEN Append(whole, Replacement) ELSE whole

\* the positions (from 1) of the full stops that a space follows
Boundaries(text) == {i \in 1..(Len(text) - 1) : text[i] = "." /\ text[i + 1] = " "}

\* text.lastIndexOf('. '), an index from 0 in UTF-16 code units, or -1
lastIndexOf(text) ==
    IF Boundaries(text) = {} THEN -1
    ELSE (CHOOSE i \in Boundaries(text) : \A j \in Boundaries(text) : j <= i) - 1

\* truncateContent(content): the text before the notice, and whether the notice
\* was appended
truncateContentText(content) ==
    IF byteLength(content) <= MaxContentLength THEN [text |-> content, marker |-> FALSE]
    ELSE LET truncated == decodeFirst(content, MaxContentLength)
             lastSentence == lastIndexOf(truncated)
         IN [text |-> IF 10 * lastSentence > 8 * MaxContentLength
                      THEN SubSeq(truncated, 1, lastSentence + 1)
                      ELSE truncated,
             marker |-> TRUE]

\* the contents that are truncated: letters, then up to MaxTail characters of
\* any kind, then letters
Fill(n) == [i \in 1..n |-> "x"]
Tails == UNION {[1..n -> Chars] : n \in 0..MaxTail}
Contents ==
    {Fill(k) \o tail \o Fill(m) : k \in 0..MaxContentLength, tail \in Tails, m \in 0..2}

\* truncateContent(result)
CallTruncateContent ==
    /\ fnOut = NoCall
    /\ fnOut' = truncateContentText(fnIn)
    /\ UNCHANGED <<regVars, deviceRows, now, tokVars, linkVars, dispVars, fnIn>>

TruncStart ==
    /\ Constructed
    /\ fnIn \in Contents
    /\ fnOut = NoCall

TruncNext == CallTruncateContent

SpecTrunc == TruncStart /\ [][TruncNext]_vars

\* text is the first characters of content
IsPrefix(text, content) ==
    Len(text) <= Len(content) /\ text = SubSeq(content, 1, Len(text))

\* the boundaries of the hard cut that lie past 80% of the budget, counted in
\* bytes and counted in characters
PastInBytes(cut) ==
    {i \in Boundaries(cut) : 10 * byteLength(SubSeq(cut, 1, i - 1)) > 8 * MaxContentLength}
PastInChars(cut) == {i \in Boundaries(cut) : 10 * (i - 1) > 8 * MaxContentLength}

\* C17: a content of at most MAX_CONTENT_LENGTH bytes is returned as it is,
\* without the notice. A longer one is returned as a prefix of the original of at
\* most MAX_CONTENT_LENGTH bytes, followed by the notice: the prefix ends with the
\* last full stop that a space follows (or with that space) if such a boundary
\* lies past 80% of the budget, and is the longest prefix of whole characters
\* within the budget if none does - for text with characters of several bytes too
C17_TruncatedPrefix ==
    fnOut # NoCall =>
        IF byteLength(fnIn) <= MaxContentLength
        THEN fnOut.text = fnIn /\ ~fnOut.marker
        ELSE LET cut == Whole(fnIn, MaxContentLength)
                 last == lastIndexOf(cut) + 1
             IN /\ fnOut.marker
                /\ IsPrefix(fnOut.text, fnIn)
                /\ byteLength(fnOut.text) <= MaxContentLength
                /\ PastInBytes(cut) \cup PastInChars(cut) = {} => fnOut.text = cut
                /\ last \in PastInBytes(cut) \cap PastInChars(cut) =>
                       Len(fnOut.text) \in {last, last + 1}

\* ----------------------------------- the device records of connected devices
\* the tool call the devices make in the device record specification: a
\* third-party one, to the service s1
OwnCall == <<<<"acme", "run">>, Obj(<<Prop("maxResults", Num(10))>>), "s1">>

\* the frames that ask for, link or unlink a device, the REST calls that issue a
\* link token and delete a device, on the connections the devices have open
OwnNext ==
    \/ \E u \in Users : generateLinkToken(u)
    \/ \E d \in Devices : \E c \in ConnIds(d) : \E t \in Presentable : \E dm \in Devices :
          Len(requests) < MaxOwnFrames /\ OnLinkDevice(d, c, TRUE, t, dm)
    \/ \E d \in Devices : \E c \in ConnIds(d) : \E dm \in Devices :
          Len(requests) < MaxOwnFrames /\ OnUnlinkDevice(d, c, TRUE, dm)
    \/ \E d \in Devices : \E c \in ConnIds(d) :
          Len(requests) < MaxOwnFrames /\ OnGetServers(d, c, TRUE)
    \/ \E d \in Devices : \E c \in ConnIds(d) : \E dm \in Devices :
          Len(requests) < MaxOwnFrames /\ OnGetUserAccount(d, c, TRUE, dm)
    \/ \E d \in Devices : \E c \in ConnIds(d) :
          Len(requests) < MaxOwnFrames
              /\ OnToolExecute(d, c, TRUE, OwnCall[1], OwnCall[2], OwnCall[3])
    \/ \E i \in 1..Len(requests) : AdapterSettle(i, "small")
    \/ \E d \in Devices : \E u \in Users : DeleteDevice(d, u)

\* each device has connected once; d1 is linked to u1, who has registered the
\* service s1; d2 is linked to u2 or to none
OwnStart ==
    /\ conns = [d \in Devices |-> <<NewSocket(1)>>]
    /\ sets = [d \in Devices |-> << <<1>> >>]
    /\ deviceConnections = [d \in Devices |-> 1]
    /\ rejected = 0
    /\ TokInit /\ LinkInit /\ DispInit /\ FnInit /\ now = 0
    /\ deviceRows \in {[d \in Devices |-> IF d = "d1" THEN "u1" ELSE x] :
                          x \in {Unlinked, "u2"}}
    /\ services = {[id |-> "s1", owner |-> "u1"]}

SpecOwn == OwnStart /\ [][OwnNext]_vars

\* C22: in every reachable state, every device id that has a registered connection
\* that has not closed has a row in the devices table - across connects, link and
\* unlink frames, heartbeats and the deletion of devices over REST and the console
C22_RecordOfConnected ==
    \A d \in Devices : Tracked(d) # <<>> => deviceRows[d] # Absent

\* the frame that arrives in this step, if one does
Incoming == requests'[Len(requests')]

\* the servers a user is offered
ServersOf(u) == BuiltIn \cup {s.id : s \in {x \in services : x.owner = u}}

\* C26: the owning identity is read from the devices row when a request starts
\* and is not kept with the connection: a tool_execute frame that arrives while
\* the row of the socket's device has no owner ends as not-linked and a
\* get_servers frame is answered with an empty list, and while the row has an
\* owner the frames run under that owner, whatever the row said when the socket
\* connected or when it sent its earlier frames
C26_ResolvedPerRequest ==
    [][Len(requests') > Len(requests) =>
          LET q == Incoming
              row == deviceRows[q.dev]
          IN /\ q.type = "tool_execute" /\ q.call[1] # NoToolName =>
                   IF row \in Users
                   THEN q.user = row /\ q.result # "not_linked"
                   ELSE q.pc = "done" /\ q.result = "not_linked" /\ q.user = NoUser
             /\ q.type = "get_servers" =>
                   IF row \in Users
                   THEN q.user = row /\ q.servers = ServersOf(row)
                   ELSE q.servers = {}]_vars

\* a socket of a device that was linked when it connected has sent an
\* unlink_device frame for its device and then a tool_execute frame, which was
\* answered as not-linked on the socket, still open
C26_Witness ==
    /\ Len(requests) = 2
    /\ LET q == requests[1]
           p == requests[2]
       IN /\ q.type = "unlink_device" /\ p.type = "tool_execute"
          /\ q.dev = "d1" /\ p.dev = q.dev /\ p.ws = q.ws
          /\ deviceRows[q.dev] = Unlinked
          /\ p.result = "not_linked"
          /\ IsOpen(conns, p.dev, p.ws)
          /\ \E k \in 1..Len(conns[p.dev][p.ws].outbox) :
                conns[p.dev][p.ws].outbox[k] = Frame("tool_result", 2, TRUE)

\* C29: a link_device, unlink_device or get_user_account frame acts on the
\* devices row of the socket that sent it and on no other: it leaves the row of
\* every other device id as it was, and the account it reads is the one of the
\* socket's own device
C29_OwnRecordOnly ==
    [][/\ Len(requests') > Len(requests)
       /\ Incoming.type \in {"link_device", "unlink_device", "get_user_account"}
       => /\ \A d \in Devices \ {Incoming.dev} : deviceRows'[d] = deviceRows[d]
          /\ Incoming.type = "get_user_account" =>
                Incoming.user = IF deviceRows[Incoming.dev] \in Users
                                THEN deviceRows[Incoming.dev] ELSE NoUser]_vars

\* ------------------------------------------------ validation before credentials
\* the arguments of a tool call satisfy the schema of the tool
Valid(toolName, args) ==
    /\ toolName \in WriteTools =>
          \A k \in {"title", "startTime"} : Get(args, k).t \in {"text", "numeric_string"}
    /\ toolName \notin WriteTools /\ Get(args, BoundedField(toolName).name) # Undefined =>
          WholeInRange(Get(args, BoundedField(toolName).name), BoundedField(toolName))
    /\ toolName = <<"gmail", "search">> =>
          Get(args, "query").t \in {"text", "numeric_string"}

\* C33: a built-in tool call that finds nothing cached is validated before the
\* credential is asked for: with a gmail or calendar tool name that has no schema
\* it ends as unknown-tool, with arguments that break the schema as
\* invalid-arguments, and in both cases no getValidToken call is made, no refresh
\* is started, no adapter is called and the cache is left alone
C33_ValidatedFirst ==
    [][/\ Arrives
       /\ Arriving.user # NoUser
       /\ Prefix(Arriving.call[1]) \in BuiltIn
       /\ ~CacheHit(KeyOf(Arriving))
       /\ Arriving.call[1] \notin Schemas \cup WriteTools \/ ~Valid(Arriving.call[1], Arriving.call[2])
       => /\ Arriving.pc = "done"
          /\ Arriving.exec = "returned"
          /\ Arriving.result = IF Arriving.call[1] \notin Schemas \cup WriteTools
                               THEN "unknown_tool" ELSE "invalid_arguments"
          /\ tokVars' = tokVars
          /\ cache' = cache]_vars

\* a call with a maxResults out of range has ended as invalid-arguments for a user
\* whose stored access token is stale: no refresh was started for it
C33_Witness ==
    \E i \in ReqIds :
        /\ requests[i].result = "invalid_arguments"
        /\ oauthRows[requests[i].user].present
        /\ ~Fresh(oauthRows[requests[i].user])
        /\ refreshOps = <<>>
        /\ \A k \in Callers : callers[k].pc = "idle"

\* --------------------------------------------------- calls that write
\* calendar.create_event with title and startTime, and without startTime
WriteCalls ==
    {<<<<"calendar", "create_event">>, Obj(<<Prop("title", Text), Prop("startTime", Text)>>),
       "s1">>,
     <<<<"calendar", "create_event">>, Obj(<<Prop("title", Text)>>), "s1">>}

\* the connected devices ask for events to be created
WriteNext ==
    \/ \E d \in Devices : \E call \in WriteCalls :
          Len(requests) < MaxCalls /\ OnToolExecute(d, 1, TRUE, call[1], call[2], call[3])
    \/ \E i \in 1..Len(requests) : \E o \in {"fails", "small"} : AdapterSettle(i, o)
    \/ \E r \in 1..Len(refreshOps) : \E o \in DispRefreshOutcomes : RefreshSettle(r, o)
    \/ AdvanceClock(MaxExecClock)

SpecWrite == ExecStart /\ [][WriteNext]_vars

\* C34: every calendar.create_event request that gets a successful result has
\* had the calendar adapter called for it: none is answered with the content of
\* an earlier request, so of two requests with the same arguments within five
\* minutes each calls the adapter
C34_EachCreateInvokes ==
    \A i \in ReqIds :
        /\ requests[i].type = "tool_execute"
        /\ requests[i].call[1] \in WriteTools
        /\ requests[i].result \in {"success", "cached"}
        => requests[i].result = "success"

\* ------------------------------------------------------------ routing of calls
\* the server ids of the calls: a registered service, an unregistered one, and
\* the name of a built-in server
RouteServerIds == ServerIds \cup {"gmail"}

\* calls of a built-in and of a third-party tool, with a maxResults inside and
\* outside the range of the gmail schema, under every server id
RouteCalls == {<<"gmail", "get_unread">>, <<"acme", "run">>} \X ArgMaps \X RouteServerIds

RouteNext ==
    \/ \E d \in Devices : \E call \in RouteCalls :
          Len(requests) < MaxCalls /\ OnToolExecute(d, 1, TRUE, call[1], call[2], call[3])
    \/ \E i \in 1..Len(requests) : \E o \in ExecAnswers : AdapterSettle(i, o)

SpecRoute == ExecStart /\ [][RouteNext]_vars

\* C37: a call of a linked device that finds nothing cached is routed by the
\* prefix of its tool name alone. With a gmail or calendar prefix it takes the
\* built-in path whatever its serverId is: it is validated and, if valid, asks
\* for the user's credential, and never ends as unknown-service or access-denied.
\* With any other prefix it takes the third-party path by its serverId: it is
\* not validated and asks for no credential, it ends as unknown-service when no
\* service is registered under the serverId, and the HTTP call is issued when
\* the service is the user's
C37_RoutedByPrefix ==
    [][Arrives /\ Arriving.user # NoUser /\ ~CacheHit(KeyOf(Arriving)) =>
          LET t == Arriving.call[1]
              a == Arriving.call[2]
              s == Arriving.call[3]
              u == Arriving.user
              i == Len(requests')
          IN IF Prefix(t) \in BuiltIn
             THEN /\ Arriving.result \notin {"unknown_service", "access_denied"}
                  /\ IF t \in Schemas \cup WriteTools /\ Valid(t, a)
                     THEN callers'[i].pc # "idle" /\ callers'[i].userId = u
                     ELSE /\ Arriving.result \in {"unknown_tool", "invalid_arguments"}
                          /\ tokVars' = tokVars
             ELSE /\ Arriving.result \notin {"unknown_tool", "invalid_arguments"}
                  /\ tokVars' = tokVars
                  /\ (\A x \in services : x.id # s) =>
                         Arriving.pc = "done" /\ Arriving.result = "unknown_service"
                  /\ (\E x \in services : x.id = s /\ x.owner = u) =>
                         Arriving.pc = "adapter"]_vars

\* a gmail call that named an unregistered service has succeeded, and a
\* third-party call that named the gmail server has ended as unknown-service
C37_Witness ==
    \E i, j \in ReqIds :
        /\ Prefix(requests[i].call[1]) = "gmail" /\ requests[i].call[3] = "s9"
        /\ requests[i].result = "success"
        /\ Prefix(requests[j].call[1]) = "acme" /\ requests[j].call[3] = "gmail"
        /\ requests[j].result = "unknown_service"

\* ------------------------------------------- the answer of a third-party server
\* the HTTP statuses of the answer
Statuses == {200, 201, 404, 500}

\* the content items of an answer
ContentItems == [type : {"text", "image"}, text : {"a", "b"}]

\* the body of the answer: text that is not JSON, or the JSON text of null, of a
\* string, or of an object whose content is missing, a string, or an array of
\* items; `spaced` tells whether the text has white space between its tokens
Bodies ==
    {[kind |-> "not_json", spaced |-> FALSE, content |-> "none", items |-> <<>>]}
    \cup [kind : {"null", "string"}, spaced : BOOLEAN, content : {"none"}, items : {<<>>}]
    \cup [kind : {"object"}, spaced : BOOLEAN, content : {"missing", "string"}, items : {<<>>}]
    \cup [kind : {"object"}, spaced : BOOLEAN, content : {"array"},
          items : UNION {[1..n -> ContentItems] : n \in 0..MaxItems}]

\* JSON.stringify(data) of the value that response.json() gave for the body
stringifyData(body) == [body EXCEPT !.spaced = FALSE]

\* the text of the text items, which join('\n') puts one on a line
JoinedText(items) ==
    LET texts == SelectSeq(items, LAMBDA c : c.type = "text")
    IN [i \in 1..Len(texts) |-> texts[i].text]

\* what executeTool makes of a result string and of an Error thrown
Success(form, body, lines) ==
    [success |-> TRUE, form |-> form, body |-> body, lines |-> lines, error |-> "none"]
Failure(error) ==
    [success |-> FALSE, form |-> "error",
     body |-> [kind |-> "none", spaced |-> FALSE, content |-> "none", items |-> <<>>],
     lines |-> <<>>, error |-> error]

\* executeThirdPartyTool from the answer of fetch() on, and the result that
\* executeTool returns for it (the texts are shorter than MAX_CONTENT_LENGTH)
ThirdPartyResult(status, body) ==
    IF status \notin 200..299 THEN Failure("Third-party service error")
    ELSE IF body.kind = "not_json" THEN Failure("SyntaxError")
    ELSE IF body.kind = "null" THEN Failure("TypeError")
    ELSE IF body.kind # "object" \/ body.content # "array"
    THEN Success("json", stringifyData(body), <<>>)
    ELSE Success("lines", stringifyData(body), JoinedText(body.items))

CallExecuteThirdPartyTool ==
    /\ fnOut = NoCall
    /\ fnOut' = ThirdPartyResult(fnIn.status, fnIn.body)
    /\ UNCHANGED <<regVars, deviceRows, now, tokVars, linkVars, dispVars, fnIn>>

BodyStart ==
    /\ Constructed
    /\ fnIn \in [status : Statuses, body : Bodies]
    /\ fnOut = NoCall

BodyNext == CallExecuteThirdPartyTool

SpecBody == BodyStart /\ [][BodyNext]_vars

\* C38: a third-party answer with a 2xx status whose body is not JSON, or is
\* JSON without a content array, gives a successful result whose content is the
\* text of the body as it was received
C38_RawBodyOnFallback ==
    /\ fnOut # NoCall
    /\ fnIn.status \in 200..299
    /\ fnIn.body.kind # "object" \/ fnIn.body.content # "array"
    => /\ fnOut.success
       /\ fnOut.form = "json"
       /\ fnOut.body = fnIn.body

\* --------------------------------------------------- every call comes to an end
\* the tool_execute frames of a device: a built-in and a third-party call, a frame
\* without arguments and a frame without tool name
LiveCalls ==
    {<<<<"gmail", "get_unread">>, Obj(<<Prop("maxResults", Num(10))>>), "s1">>,
     <<<<"acme", "run">>, Obj(<<Prop("maxResults", Num(10))>>), "s1">>,
     <<<<"gmail", "get_unread">>, NoArgs, "s1">>,
     <<NoToolName, Obj(<<Prop("maxResults", Num(10))>>), "s1">>}

\* an adapter or a third-party server answers; the provider answers a refresh
AdapterSettles == \E i \in 1..Len(requests) : \E o \in ExecAnswers : AdapterSettle(i, o)
RefreshSettles ==
    \E r \in 1..Len(refreshOps) : \E o \in DispRefreshOutcomes : RefreshSettle(r, o)

LiveNext ==
    \/ \E d \in DispDevices : \E c \in ConnIds(d) : \E call \in LiveCalls :
          Len(requests) < MaxCalls /\ OnToolExecute(d, c, TRUE, call[1], call[2], call[3])
    \/ AdapterSettles
    \/ RefreshSettles
    \/ \E d \in DispDevices : \E c \in ConnIds(d) : PeerClosing(d, c)
    \/ \E d \in DispDevices : \E c \in ConnIds(d) : OnClose(d, c)

\* the device has connected once and is linked to u1, who has registered the
\* service s1 and whose access token is about to expire
LiveStart ==
    /\ conns = [d \in Devices |-> IF d \in DispDevices THEN <<NewSocket(1)>> ELSE <<>>]
    /\ sets = [d \in Devices |-> IF d \in DispDevices THEN << <<1>> >> ELSE <<>>]
    /\ deviceConnections = [d \in Devices |-> IF d \in DispDevices THEN 1 ELSE NoSet]
    /\ rejected = 0
    /\ LinkInit /\ DispInit /\ FnInit /\ now = 0
    /\ deviceRows = [d \in Devices |-> IF d \in DispDevices THEN "u1" ELSE Absent]
    /\ services = {[id |-> "s1", owner |-> "u1"]}
    /\ oauthRows = [u \in Users |-> IF u = "u1"
                                    THEN ExchangedRow(1, EXPIRY_BUFFER_MS) ELSE NoRow]
    /\ auths = 1
    /\ refreshPromises = [u \in Users |-> NoPromise]
    /\ refreshOps = <<>>
    /\ callers = [k \in Callers |-> IdleCaller]
    /\ oauth2Client = NoCredentials

\* every upstream call is answered in the end: the promise of each adapter call,
\* HTTP call (which has a 30 s timeout) and refresh call settles
SpecLive ==
    LiveStart /\ [][LiveNext]_vars /\ WF_vars(AdapterSettles) /\ WF_vars(RefreshSettles)

\* C39: when every upstream call is answered in the end, every executeTool call
\* comes to its end, every getValidToken call that awaits a refresh is released,
\* and for every tool_execute frame a tool_result or error frame is sent unless
\* its socket stops being open
C39_EverythingSettles ==
    /\ \A i \in 1..MaxCalls :
          (i \in ReqIds /\ requests[i].pc # "done") ~> (i \in ReqIds /\ requests[i].pc = "done")
    /\ \A k \in Callers : (callers[k].pc = "awaiting") ~> (callers[k].pc = "done")
    /\ \A i \in 1..MaxCalls :
          (i \in ReqIds /\ requests[i].type = "tool_execute")
              ~> (i \in ReqIds /\ (TerminalFrames(i) # {} \/ ~StaysOpen(i)))

\* two calls awaited the same refresh; it was answered, the adapter answered
\* both calls and both results were sent on the open socket
C39_Witness ==
    \E i, j \in ReqIds :
        /\ i # j
        /\ callers[i].op # 0 /\ callers[i].op = callers[j].op
        /\ requests[i].result = "success" /\ requests[j].result = "success"
        /\ StaysOpen(i) /\ StaysOpen(j)
        /\ TerminalFrames(i) # {} /\ TerminalFrames(j) # {}
\* connects, pongs and closes of every device, between two heartbeat ticks
RegNext ==
    \/ ConnectionNoDevice
    \/ RejectedClosed
    \/ \E d \in Devices : Connection(d)
    \/ \E d \in Devices : \E c \in ConnIds(d) : Pong(d, c)
    \/ \E d \in Devices : \E c \in ConnIds(d) : OnClose(d, c)

\* the registry with its heartbeat, all sockets coming from one device
HbDevices == {"d1"}
HbNext ==
    \/ \E d \in HbDevices : Connection(d)
    \/ \E d \in HbDevices : \E c \in ConnIds(d) : Pong(d, c)
    \/ \E d \in HbDevices : \E c \in ConnIds(d) : OnClose(d, c)
    \/ HeartbeatTick

Next == RegNext

Spec == Init /\ [][Next]_vars

SpecHeartbeat == Init /\ [][HbNext]_vars


\* ------------------------------------------------------- connection registry
\* socket c of device d was admitted and has been neither evicted (deleted from its
\* Set by a later admission) nor closed
Admitted(d) == {c \in ConnIds(d) : c \in Range(sets[d][conns[d][c].connections])}

\* C1: in every reachable state, every device id has at most 5 connections that
\* were admitted and have been neither evicted nor closed.
C1_ConnectionCeiling ==
    \A d \in Devices : Cardinality(Admitted(d)) <= MAX_CONNECTIONS_PER_DEVICE

\* C28: in every reachable state getConnectionCount() is the number of sockets
\* that were admitted and have been neither evicted nor closed, and
\* getOnlineDeviceIds() is the set of the device ids that have such a socket, in
\* whatever order the close events arrive, the late one of an evicted socket
\* included
C28_CountsMatch ==
    /\ getConnectionCount = SumOver([d \in Devices |-> Cardinality(Admitted(d))], Devices)
    /\ getOnlineDeviceIds = {d \in Devices : Admitted(d) # {}}

\* the earliest admitted of the sockets in a Set: positions follow arrival
Earliest(members) == CHOOSE c \in Range(members) : \A x \in Range(members) : c <= x

AdmissionStep(d) ==
    LET t == Tracked(d)
        c == Len(conns[d]) + 1
    IN /\ \A e \in Devices \ {d} : conns'[e] = conns[e] /\ sets'[e] = sets[e]
       /\ conns'[d][c].state = "open"
       /\ IF Len(t) >= MAX_CONNECTIONS_PER_DEVICE
          THEN LET o == Earliest(t)
               IN /\ Tracked(d)' = Append(Without(t, o), c)
                  /\ conns'[d][o].state = "closing"
                  /\ conns'[d][o].closeCode = CLOSE_TOO_MANY
                  /\ \A x \in ConnIds(d) \ {o} : conns'[d][x] = conns[d][x]
          ELSE /\ Tracked(d)' = Append(t, c)
               /\ \A x \in ConnIds(d) : conns'[d][x] = conns[d][x]

MembersLive ==
    \A d \in Devices :
        /\ \A k \in 1..Len(sets[d]) : \A m \in Range(sets[d][k]) :
              m \in ConnIds(d) /\ conns[d][m].connections = k
        /\ d \in getOnlineDeviceIds => Tracked(d) # <<>>

\* C3: a socket pinged at one tick that sent no pong before the next tick is
\* terminated at that tick; a socket whose close event has fired is in no Set,
\* and its device id is listed online only if another live socket is tracked.
C3_ZombieReaped ==
    /\ [][HeartbeatTick =>
            \A d \in Devices : \A c \in ConnIds(d) :
                conns[d][c].isAlive = FALSE => conns'[d][c].state = "terminated"]_vars
    /\ []MembersLive

C3_Witness ==
    \E d \in Devices : \E c \in ConnIds(d) :
        /\ conns[d][c].state = "terminated"
        /\ c \in Range(Tracked(d))
        /\ Len(conns[d]) > 1

\* C31: a socket is terminated only by a tick that finds its flag false, and the
\* flag is false only from a tick's ping until the pong: it is true when the
\* socket is admitted, a pong sets it true, and a tick leaves every socket whose
\* flag is true as it is but for the ping. So a socket that answers every ping
\* before the next tick is never terminated, a newly admitted one not at the first
\* tick after its admission.
C31_AnsweringNeverReaped ==
    [][\A d \in Devices :
          /\ Len(conns'[d]) = Len(conns[d]) + 1 => conns'[d][Len(conns'[d])].isAlive
          /\ \A c \in ConnIds(d) : Pong(d, c) => conns'[d][c].isAlive
          /\ Len(conns'[d]) = Len(conns[d]) =>
                \A c \in ConnIds(d) :
                    /\ conns[d][c].isAlive /\ HeartbeatTick =>
                          conns'[d][c] = [conns[d][c] EXCEPT !.isAlive = FALSE]
                    /\ conns[d][c].state # "terminated" /\ conns'[d][c].state = "terminated"
                          => HeartbeatTick /\ ~conns[d][c].isAlive
                    /\ conns[d][c].isAlive /\ ~conns'[d][c].isAlive => HeartbeatTick]_vars

\* of two sockets of a device the older one is open and the younger one has been
\* terminated: the older one has been through the two ticks that pinged and
\* terminated the younger one, and answered
C31_Witness ==
    \E d \in Devices : \E a, b \in ConnIds(d) :
        /\ a < b
        /\ conns[d][a].state = "open" /\ ~conns[d][a].isAlive
        /\ conns[d][b].state = "terminated"

\* C32: once the close event of a socket has fired - after a close handshake, an
\* eviction or a termination - no Set holds it: the Sets of a device hold only
\* sockets whose close event has not fired, each at most once and only in the Set
\* its handlers work on; and a device id all of whose sockets have closed is not
\* listed by getOnlineDeviceIds() and not counted by getActiveDeviceCount()
C32_ClosedLeavesRegistry ==
    /\ \A d \in Devices :
          /\ \A k \in 1..Len(sets[d]) :
                /\ \A m \in Range(sets[d][k]) :
                      m \in ConnIds(d) /\ conns[d][m].connections = k
                /\ Cardinality(Range(sets[d][k])) = Len(sets[d][k])
          /\ conns[d] = <<>> => d \notin getOnlineDeviceIds
    /\ getActiveDeviceCount <= Cardinality({d \in Devices : conns[d] # <<>>})

\* a device has connected and all its sockets have closed: it is offline
C32_Witness ==
    \E d \in Devices :
        /\ deviceRows[d] # Absent
        /\ conns[d] = <<>>
        /\ sets[d] = <<>>
        /\ getActiveDeviceCount = 0

====
